---------------------------- MODULE Spec2Model ----------------------------
(***************************************************************************)
(* A model of parts of skytable:                                           *)
(*                                                                         *)
(*   - the SDSS v1 file driver (engine/storage/v1/rw.rs): SDSSFileIO over  *)
(*     the local-disk RawFileIOInterface;                                  *)
(*   - the BlueQL statement compiler (engine/ql/ast/mod.rs, ql/ddl.rs,     *)
(*     ql/ddl/drop.rs): the parser State, its data sources and compile's   *)
(*     dispatch;                                                           *)
(*   - the token fuzzer of the parser's tests (engine/ql/tests.rs);        *)
(*   - the CLI's tokenizer (cli/src/tokenizer.rs);                         *)
(*   - the server's LSET action (server/src/actions/lists/mod.rs).         *)
(*                                                                         *)
(* Spec is the file driver's state machine and SpecQL the compiler's.      *)
(* SpecState, SpecRounded and SpecData call the operations of the parser   *)
(* State one by one, SpecFuzz runs the fuzzer and SpecCli the tokenizer.   *)
(* SpecTwin runs the parser's twin implementations side by side, and       *)
(* SpecLset interleaves LSET calls on one list name.                       *)
(***************************************************************************)
EXTENDS Integers, Sequences, FiniteSets, TLC

VARIABLES
    fs,      \* the file on disk: existence, contents, creation and modification time
    hist,    \* the file's states since the last successful sync, oldest first
    fh,      \* the SDSSFileIO handle: whether one is open, and the file position
    now,     \* the filesystem's clock, in timestamp granules
    last,    \* the last driver call: arguments, outcome, and the file before it
    chain,   \* the run of successful opens of one tuple since the file was created
    barrier, \* where in hist the file's state at the last Ok fsynced_write lies (0: none yet)
    nops,    \* driver calls made so far
    tok,     \* the slice handed over: tokens for the compiler, bytes for the CLI's tokenizer
    st,      \* the parser State
    qres,    \* the result of the last parser call
    qpc,     \* the parser driver's position: the last call made
    qpre,    \* the parser State before the last call
    registry,\* the server's global state flag: TRUE while the registry state is okay
    listmap, \* the list stored under the one list name of the default table, if any
    calls    \* the LSET calls in flight: each one's arguments, position and locals

svars == <<fs, hist, fh, now, last, chain, barrier, nops>>
qvars == <<tok, st, qres, qpc, qpre>>
lvars == <<registry, listmap, calls>>
vars == <<fs, hist, fh, now, last, chain, barrier, nops, tok, st, qres, qpc, qpre,
          registry, listmap, calls>>

(***************************************************************************)
(* Bounds of the model.                                                    *)
(***************************************************************************)
MaxOps == 4
MaxTime == 1
MaxLen == 4

MaxStLen == 4

MaxRdLen == 3

MaxParams == 3

MaxInp == 4

MaxSrc == 3

MaxInject == 2

MaxRounds == 2

MaxTwinLen == 4

\* LSET calls made on the one list name
MaxCalls == 2

(***************************************************************************)
(* SDSS header.  A file is a sequence of cells; a header takes HeaderSize  *)
(* of them, one per field, in the order of the static and the dynamic      *)
(* record.                                                                 *)
(***************************************************************************)
HeaderSize == 8
SDSS_MAGIC == 83

NoHeader ==
    [scope |-> 0, specifier |-> 0, specifier_version |-> 0,
     host_setting_version |-> 0, host_run_mode |-> 0,
     host_startup_counter |-> 0, modify_counter |-> 0]

\* SDSSHeaderRaw::new_auto(..).array(): the header's cells
new_auto(scope, specifier, specifier_version, setting_version, run_mode, startup_counter, modify_counter) ==
    <<SDSS_MAGIC, scope, specifier, specifier_version,
      setting_version, run_mode, startup_counter, modify_counter>>

\* SDSSHeaderRaw::decode_noverify: None when the magic does not match
decode_noverify(raw) ==
    IF raw[1] = SDSS_MAGIC
    THEN [some |-> TRUE,
          h |-> [scope |-> raw[2], specifier |-> raw[3],
                 specifier_version |-> raw[4],
                 host_setting_version |-> raw[5], host_run_mode |-> raw[6],
                 host_startup_counter |-> raw[7], modify_counter |-> raw[8]]]
    ELSE [some |-> FALSE, h |-> NoHeader]

\* SDSSHeader::verify: the (scope, specifier, specifier version) tuple matches
verify_scope_only(h, file_scope, file_specifier, file_specifier_version) ==
    h.scope = file_scope

verify(h, file_scope, file_specifier, file_specifier_version) ==
    /\ h.scope = file_scope
    /\ h.specifier = file_specifier
    /\ h.specifier_version = file_specifier_version

\* dr_rs_mut().bump_modify_count()
bump_modify_count(h) ==
    [h EXCEPT !.modify_counter = @ + 1]

\* SDSSHeader::encoded().array()
encoded(h) ==
    new_auto(h.scope, h.specifier, h.specifier_version,
             h.host_setting_version, h.host_run_mode,
             h.host_startup_counter, h.modify_counter)

(***************************************************************************)
(* The local-disk RawFileIOInterface.  A handle's world is w = [fs, hist,  *)
(* pos]: reads and writes share the one file position of std::fs::File.    *)
(***************************************************************************)
NoFile == [exists |-> FALSE, bytes |-> <<>>, created |-> 0, modified |-> 0]

Zeros(n) == [k \in 1..n |-> 0]

\* the file's bytes after writing data at offset pos (a write past EOF leaves a hole of zeros)
WriteAt(bytes, pos, data) ==
    IF data = <<>> THEN bytes
    ELSE LET padded == IF pos > Len(bytes)
                       THEN bytes \o Zeros(pos - Len(bytes)) ELSE bytes
         IN  SubSeq(padded, 1, pos) \o data
               \o SubSeq(padded, pos + Len(data) + 1, Len(padded))

\* File::fopen_or_create_rw: create(true).read(true).write(true).open, at time t
fopen_or_create_rw_file(w, t) ==
    IF w.fs.exists THEN w
    ELSE LET f == [exists |-> TRUE, bytes |-> <<>>, created |-> t, modified |-> t]
         IN  [fs |-> f, hist |-> Append(w.hist, f), pos |-> 0]

\* File::fopen_or_create_rw: md.created()? == md.modified()?
RawCreated(f) == f.created = f.modified

\* fwrite_all at time t; n cells reach the file (n < Len(data): the write failed)
fwrite_all(w, data, n, t) ==
    IF n = 0 THEN w
    ELSE LET f == [w.fs EXCEPT !.bytes = WriteAt(@, w.pos, SubSeq(data, 1, n)),
                               !.modified = t]
         IN  [fs |-> f, hist |-> Append(w.hist, f), pos |-> w.pos + n]

\* fsync_all: whatever was written is durable
fsync_all(w) ==
    [w EXCEPT !.hist = <<w.fs>>]

\* fread_exact of n cells: the cells read, or a short read
fread_exact(w, n) ==
    IF w.pos + n <= Len(w.fs.bytes)
    THEN [ok |-> TRUE, buf |-> SubSeq(w.fs.bytes, w.pos + 1, w.pos + n),
          w |-> [w EXCEPT !.pos = @ + n]]
    ELSE [ok |-> FALSE, buf |-> <<>>,
          w |-> [w EXCEPT !.pos = IF @ < Len(w.fs.bytes) THEN Len(w.fs.bytes) ELSE @]]

\* fseek_ahead: SeekFrom::Start(by)
fseek_ahead_current(w, by) ==
    [w EXCEPT !.pos = @ + by]

fseek_ahead(w, by) ==
    [w EXCEPT !.pos = by]

\* flen
flen(w) == Len(w.fs.bytes)

(***************************************************************************)
(* I/O outcomes the environment chooses for one driver call.               *)
(***************************************************************************)
IoOutcomes == {"none", "open", "write", "sync"}

WriteFails(io) == io = "write"

\* cells a write of data puts into the file under outcome io: a failing write stops
\* after the first cell, and before it when there is no second
Written(data, io) ==
    IF WriteFails(io) THEN (IF Len(data) > 1 THEN 1 ELSE 0) ELSE Len(data)

(***************************************************************************)
(* SDSSFileIO.                                                             *)
(***************************************************************************)
\* the caller's arguments to open_or_create_perm_rw
OpenArgs ==
    { [file_scope |-> 1, file_specifier |-> 1, file_specifier_version |-> 1,
       host_setting_version |-> 3, host_run_mode |-> 1, host_startup_counter |-> 42],
      [file_scope |-> 2, file_specifier |-> 1, file_specifier_version |-> 1,
       host_setting_version |-> 4, host_run_mode |-> 0, host_startup_counter |-> 43],
      [file_scope |-> 1, file_specifier |-> 2, file_specifier_version |-> 1,
       host_setting_version |-> 3, host_run_mode |-> 1, host_startup_counter |-> 42],
      [file_scope |-> 1, file_specifier |-> 1, file_specifier_version |-> 2,
       host_setting_version |-> 3, host_run_mode |-> 1, host_startup_counter |-> 42] }

NoArgs ==
    [file_scope |-> 0, file_specifier |-> 0, file_specifier_version |-> 0,
     host_setting_version |-> 0, host_run_mode |-> 0, host_startup_counter |-> 0]

\* the (scope, specifier, specifier version) tuple of the arguments
TupleOf(a) == <<a.file_scope, a.file_specifier, a.file_specifier_version>>

\* the byte strings callers write
DataSet == { <<5>>, <<6, 7>> }

\* SDSSFileIO::fsynced_write: self.f.fwrite_all(data)?; self.f.fsync_all()
fsynced_write_nosync(w, data, io, t) ==
    LET w1 == fwrite_all(w, data, Written(data, io), t)
    IN  IF WriteFails(io) THEN [ok |-> FALSE, w |-> w1]
        ELSE [ok |-> TRUE, w |-> w1]

fsynced_write(w, data, io, t) ==
    LET w1 == fwrite_all(w, data, Written(data, io), t)
    IN  IF WriteFails(io) THEN [ok |-> FALSE, w |-> w1]
        ELSE IF io = "sync" THEN [ok |-> FALSE, w |-> w1]
        ELSE [ok |-> TRUE, w |-> fsync_all(w1)]

\* SDSSFileIO::unfsynced_write: self.f.fwrite_all(data)
unfsynced_write(w, data, io, t) ==
    [ok |-> ~WriteFails(io), w |-> fwrite_all(w, data, Written(data, io), t)]

\* SDSSFileIO::open_or_create_perm_rw, the raw open at time t0 and the header I/O at t1
open_or_create_perm_rw(w0, a, io, t0, t1) ==
    IF io = "open"
    THEN [res |-> "IoError", raw |-> "none", hdr |-> NoHeader, w |-> w0, ok |-> FALSE]
    ELSE
    LET w == [fopen_or_create_rw_file(w0, t0) EXCEPT !.pos = 0]
    IN  IF RawCreated(w.fs)
        THEN \* since this file was just created, we need to append the header
             LET data == new_auto(a.file_scope, a.file_specifier,
                                  a.file_specifier_version, a.host_setting_version,
                                  a.host_run_mode, a.host_startup_counter, 0)
                 r == fsynced_write(w, data, io, t1)
             IN  [res |-> IF r.ok THEN "Created" ELSE "IoError", raw |-> "Created",
                  hdr |-> NoHeader, w |-> r.w, ok |-> r.ok]
        ELSE \* this is an existing file. decoded the header
             LET rd == fread_exact(w, HeaderSize)
                 dec == IF rd.ok THEN decode_noverify(rd.buf)
                        ELSE [some |-> FALSE, h |-> NoHeader]
                 header == dec.h
                 new_header == bump_modify_count(header)
                 r == fsynced_write(rd.w, encoded(new_header), io, t1)
             IN  IF ~rd.ok
                 THEN [res |-> "IoError", raw |-> "Existing", hdr |-> NoHeader,
                       w |-> rd.w, ok |-> FALSE]
                 ELSE IF ~dec.some
                 THEN [res |-> "CorruptedHeader", raw |-> "Existing", hdr |-> NoHeader,
                       w |-> rd.w, ok |-> FALSE]
                 ELSE IF ~verify(header, a.file_scope, a.file_specifier,
                                 a.file_specifier_version)
                 THEN [res |-> "HeaderMismatch", raw |-> "Existing", hdr |-> NoHeader,
                       w |-> rd.w, ok |-> FALSE]
                 ELSE [res |-> IF r.ok THEN "Existing" ELSE "IoError", raw |-> "Existing",
                       hdr |-> IF r.ok THEN header ELSE NoHeader, w |-> r.w, ok |-> r.ok]

(***************************************************************************)
(* The file driver's state machine.                                        *)
(***************************************************************************)
World == [fs |-> fs, hist |-> hist, pos |-> fh.pos]

NoCall ==
    [op |-> "none", res |-> "none", raw |-> "none", hdr |-> NoHeader,
     args |-> NoArgs, io |-> "none", pre |-> NoFile, data |-> <<>>,
     ateof |-> FALSE, b |-> <<>>, prev |-> "none", kept |-> 0, lost |-> 0,
     barrier |-> 0, by |-> 0, from |-> 0]

NoChain == [tuple |-> <<0, 0, 0>>, n |-> -1]

\* InplaceData: the data source that reads from the tokens and holds nothing itself
InplaceData == [data |-> <<>>, src |-> <<>>, nread |-> 0]

\* State::new; wrap says the build has overflow checks off (usize arithmetic wraps)
State_in(wrap) ==
    [i |-> 0, f |-> TRUE, panic |-> FALSE, reads |-> <<>>, rd |-> <<>>, hi |-> 0,
     wrap |-> wrap, d |-> InplaceData]

\* no list stored under the name
NoList == [some |-> FALSE, v |-> <<>>]

\* the server idle: no LSET call is made
LIdle ==
    /\ registry = TRUE
    /\ listmap = NoList
    /\ calls = <<>>

QIdle ==
    /\ tok = <<>>
    /\ st = State_in(FALSE)
    /\ qpre = State_in(FALSE)
    /\ qres = [kind |-> "none", entity |-> <<>>, force |-> FALSE]
    /\ qpc = "idle"

Init ==
    /\ fs = NoFile
    /\ hist = <<NoFile>>
    /\ fh = [open |-> FALSE, pos |-> 0]
    /\ now = 0
    /\ last = NoCall
    /\ chain = NoChain
    /\ barrier = 0
    /\ nops = 0
    /\ QIdle
    /\ LIdle

\* the barrier after a call that left the file's states since the last sync as h:
\* ok says an fsynced_write returned Ok, which puts the barrier at the file's state now
BarrierAfter(ok, h) ==
    IF ok THEN Len(h)
    ELSE barrier

Open(a, io, dt) ==
    /\ ~fh.open
    /\ nops < MaxOps
    /\ now + dt <= MaxTime
    /\ LET r == open_or_create_perm_rw(World, a, io, now, now + dt)
           sameTuple == chain.n >= 0 /\ chain.tuple = TupleOf(a)
       IN  /\ fs' = r.w.fs
           /\ hist' = r.w.hist
           /\ fh' = IF r.ok THEN [open |-> TRUE, pos |-> r.w.pos]
                    ELSE [open |-> FALSE, pos |-> 0]
           /\ last' = [NoCall EXCEPT !.op = "open", !.res = r.res, !.raw = r.raw,
                                     !.hdr = r.hdr, !.args = a, !.io = io, !.pre = fs,
                                     !.b = IF last.op = "fsynced_write" /\ last.res = "Ok"
                                              /\ last.ateof
                                           THEN last.data ELSE <<>>]
           /\ chain' = IF ~fs.exists /\ r.res = "Created"
                       THEN [tuple |-> TupleOf(a), n |-> 0]
                       ELSE IF sameTuple /\ r.ok
                       THEN [chain EXCEPT !.n = @ + 1]
                       ELSE NoChain
           /\ barrier' = BarrierAfter(r.ok, r.w.hist)
    /\ now' = now + dt
    /\ nops' = nops + 1
    /\ UNCHANGED <<qvars, lvars>>

Close ==
    /\ fh.open
    /\ fh' = [open |-> FALSE, pos |-> 0]
    /\ UNCHANGED <<fs, hist, now, last, chain, barrier, nops>>
    /\ UNCHANGED <<qvars, lvars>>

FsyncedWrite(data, io) ==
    /\ fh.open
    /\ nops < MaxOps
    /\ LET r == fsynced_write(World, data, io, now)
       IN  /\ fs' = r.w.fs
           /\ hist' = r.w.hist
           /\ fh' = [fh EXCEPT !.pos = r.w.pos]
           /\ last' = [NoCall EXCEPT !.op = "fsynced_write",
                                     !.res = IF r.ok THEN "Ok" ELSE "IoError",
                                     !.io = io, !.pre = fs, !.data = data,
                                     !.ateof = (fh.pos = Len(fs.bytes))]
           /\ barrier' = BarrierAfter(r.ok, r.w.hist)
    /\ chain' = NoChain
    /\ nops' = nops + 1
    /\ UNCHANGED now
    /\ UNCHANGED <<qvars, lvars>>

UnfsyncedWrite(data, io) ==
    /\ fh.open
    /\ nops < MaxOps
    /\ LET r == unfsynced_write(World, data, io, now)
       IN  /\ fs' = r.w.fs
           /\ hist' = r.w.hist
           /\ fh' = [fh EXCEPT !.pos = r.w.pos]
           /\ last' = [NoCall EXCEPT !.op = "unfsynced_write",
                                     !.res = IF r.ok THEN "Ok" ELSE "IoError",
                                     !.io = io, !.pre = fs, !.data = data,
                                     !.ateof = (fh.pos = Len(fs.bytes))]
           /\ barrier' = BarrierAfter(FALSE, r.w.hist)
    /\ chain' = NoChain
    /\ nops' = nops + 1
    /\ UNCHANGED now
    /\ UNCHANGED <<qvars, lvars>>

\* SDSSFileIO::fsync_all
FsyncAll(io) ==
    /\ fh.open
    /\ nops < MaxOps
    /\ hist' = IF io = "none" THEN fsync_all(World).hist ELSE hist
    /\ last' = [NoCall EXCEPT !.op = "fsync_all",
                              !.res = IF io = "none" THEN "Ok" ELSE "IoError",
                              !.io = io, !.pre = fs]
    /\ barrier' = IF io = "none" /\ barrier > 0 THEN 1 ELSE barrier
    /\ chain' = NoChain
    /\ nops' = nops + 1
    /\ UNCHANGED <<fs, fh, now>>
    /\ UNCHANGED <<qvars, lvars>>

\* SDSSFileIO::read_to_buffer
ReadToBuffer(n) ==
    /\ fh.open
    /\ nops < MaxOps
    /\ LET r == fread_exact(World, n)
       IN  /\ fh' = [fh EXCEPT !.pos = r.w.pos]
           /\ last' = [NoCall EXCEPT !.op = "read_to_buffer",
                                     !.res = IF r.ok THEN "Ok" ELSE "IoError",
                                     !.pre = fs, !.data = r.buf]
    /\ chain' = NoChain
    /\ nops' = nops + 1
    /\ UNCHANGED <<fs, hist, now, barrier>>
    /\ UNCHANGED <<qvars, lvars>>

\* SDSSFileIO::seek_ahead
SeekAhead(by) ==
    /\ fh.open
    /\ nops < MaxOps
    /\ fh' = [fh EXCEPT !.pos = fseek_ahead(World, by).pos]
    /\ last' = [NoCall EXCEPT !.op = "seek_ahead", !.res = "Ok", !.pre = fs,
                              !.by = by, !.from = fh.pos]
    /\ chain' = NoChain
    /\ nops' = nops + 1
    /\ UNCHANGED <<fs, hist, now, barrier>>
    /\ UNCHANGED <<qvars, lvars>>

\* a crash: the handle is gone, and of the writes since the last sync any prefix survives
Crash ==
    /\ nops < MaxOps
    /\ \E k \in 1..Len(hist) :
          /\ fs' = hist[k]
          /\ hist' = <<hist[k]>>
          /\ last' = [NoCall EXCEPT !.op = "crash", !.res = "Ok", !.pre = fs,
                                    !.prev = last.op, !.kept = k,
                                    !.lost = Len(hist) - k,
                                    !.barrier = barrier]
          /\ barrier' = IF barrier = 0 THEN 0 ELSE 1
    /\ fh' = [open |-> FALSE, pos |-> 0]
    /\ chain' = NoChain
    /\ nops' = nops + 1
    /\ UNCHANGED now
    /\ UNCHANGED <<qvars, lvars>>

\* the filesystem's clock moves to the next timestamp granule (a granule whose stamp
\* the file does not carry is not told apart from the one after it)
Tick ==
    /\ now < MaxTime
    /\ fs.exists /\ now \in {fs.created, fs.modified}
    /\ now' = now + 1
    /\ UNCHANGED <<fs, hist, fh, last, chain, barrier, nops>>
    /\ UNCHANGED <<qvars, lvars>>

\* the offsets callers seek to
SeekOffsets == {0, HeaderSize}

Next ==
    \/ \E a \in OpenArgs, io \in IoOutcomes, dt \in {0, 1} : Open(a, io, dt)
    \/ Close
    \/ \E d \in DataSet, io \in {"none", "write", "sync"} : FsyncedWrite(d, io)
    \/ \E d \in DataSet, io \in {"none", "write"} : UnfsyncedWrite(d, io)
    \/ \E io \in {"none", "sync"} : FsyncAll(io)
    \/ ReadToBuffer(HeaderSize)
    \/ \E by \in SeekOffsets : SeekAhead(by)
    \/ Crash
    \/ Tick

Spec == Init /\ [][Next]_vars

(***************************************************************************)
(* BlueQL tokens.                                                          *)
(***************************************************************************)
Kw(v) == [k |-> "Keyword", v |-> v]
Id(v) == [k |-> "Ident", v |-> v]
Sym(v) == [k |-> "Symbol", v |-> v]
NoToken == [k |-> "none", v |-> ""]

\* the tokens the slices are built of
Tokens ==
    { Kw("use"), Kw("create"), Kw("alter"), Kw("drop"), Kw("model"), Kw("space"),
      Id("inspect"), Id("INSPECT"), Id("spaces"), Id("force"), Id("FORCE"), Id("x"),
      Sym(".") }

\* every token slice of at most n tokens
Slices(n) == UNION { [1..k -> Tokens] : k \in 0..n }

\* Token::is_ident
is_ident(t) == t.k = "Ident"

\* u8::to_ascii_lowercase over the identifier
to_ascii_lowercase(v) ==
    CASE v = "INSPECT" -> "inspect"
      [] v = "SPACES" -> "spaces"
      [] v = "FORCE" -> "force"
      [] OTHER -> v

\* eq_ignore_ascii_case
eq_ignore_ascii_case(a, b) == to_ascii_lowercase(a) = to_ascii_lowercase(b)

(***************************************************************************)
(* The parser State over the slice tok: s = [i, f, d, panic, reads, ...].  *)
(* i is the cursor, f the flag and d the data source; panic says the call  *)
(* has panicked (an index out of bounds, a usize subtraction below zero)   *)
(* and reads lists the indices at which the slice was indexed.  An         *)
(* operation yields [s, v]: the state after it and the value it returns.   *)
(***************************************************************************)
\* `let x = e; ...`: e is evaluated once and the rest sees its value
The(S) == CHOOSE v \in S : TRUE

Bind(e, F(_)) == The({ F(v) : v \in {e} })

\* usize is modelled 16 bits wide
USIZE_MAX == 65535

\* State::new, in the build at hand
State_new == State_in(st.wrap)

Panicked(s) == [s EXCEPT !.panic = TRUE]

\* a - b in usize: below zero it panics with overflow checks on, and wraps with them off
usize_sub(s, a, b) ==
    IF a >= b THEN [s |-> s, v |-> a - b]
    ELSE IF s.wrap THEN [s |-> s, v |-> a - b + USIZE_MAX + 1]
    ELSE [s |-> Panicked(s), v |-> 0]

\* a + b in usize
usize_add(s, a, b) ==
    IF a + b <= USIZE_MAX THEN [s |-> s, v |-> a + b]
    ELSE IF s.wrap THEN [s |-> s, v |-> a + b - USIZE_MAX - 1]
    ELSE [s |-> Panicked(s), v |-> 0]

\* self.t[k]
Index(s, k) ==
    IF s.panic THEN [s |-> s, v |-> NoToken]
    ELSE IF k >= 0 /\ k < Len(tok)
    THEN [s |-> [s EXCEPT !.reads = Append(@, k)], v |-> tok[k + 1]]
    ELSE [s |-> Panicked([s EXCEPT !.reads = Append(@, k)]), v |-> NoToken]

\* minidx: cmp::min(src.len() - 1, index)
minidx(s, index) ==
    Bind(usize_sub(s, Len(tok), 1), LAMBDA m :
        [s |-> m.s, v |-> IF m.v < index THEN m.v ELSE index])

\* State::okay
okay(s) == s.f

\* State::poison_if: self.f &= !fuse
poison_if_assign(s, fuse) ==
    IF s.panic THEN s ELSE [s EXCEPT !.f = ~fuse]

poison_if(s, fuse) ==
    IF s.panic THEN s ELSE [s EXCEPT !.f = @ /\ ~fuse]

\* State::poison
poison(s) ==
    IF s.panic THEN s ELSE [s EXCEPT !.f = FALSE]

\* State::poison_if_not
poison_if_not(s, fuse) == poison_if(s, ~fuse)

\* the cursor is set to i; hi keeps the highest cursor of the call
cursor_set(s, i) ==
    IF s.panic THEN s ELSE [s EXCEPT !.i = i, !.hi = IF i > @ THEN i ELSE @]

\* State::cursor_ahead_by: self.i += by
cursor_ahead_by(s, by) ==
    IF s.panic THEN s
    ELSE Bind(usize_add(s, s.i, by), LAMBDA m : cursor_set(m.s, m.v))

\* State::cursor_ahead
cursor_ahead(s) == cursor_ahead_by(s, 1)

\* State::cursor_ahead_if
cursor_ahead_if_never(s, iff) == cursor_ahead_by(s, 0)

cursor_ahead_if(s, iff) == cursor_ahead_by(s, IF iff THEN 1 ELSE 0)

\* State::cursor_back_by: self.i -= by
cursor_back_by(s, by) ==
    IF s.panic THEN s
    ELSE Bind(usize_sub(s, s.i, by), LAMBDA m : cursor_set(m.s, m.v))

\* State::cursor_back
cursor_back_stay(s) == cursor_back_by(s, 0)

cursor_back(s) == cursor_back_by(s, 1)

\* State::read: &self.t[self.i]; rd lists the cursors at which read was called
read(s) ==
    IF s.panic THEN [s |-> s, v |-> NoToken]
    ELSE Index([s EXCEPT !.rd = Append(@, s.i)], s.i)

\* State::fw_read
fw_read_stay(s) ==
    Bind(read(s), LAMBDA r :
        [s |-> r.s, v |-> r.v])

fw_read(s) ==
    Bind(read(s), LAMBDA r :
        [s |-> cursor_ahead(r.s), v |-> r.v])

\* State::current: &self.t[self.i..], the offset the subslice starts at
current(s) ==
    IF s.i > Len(tok) THEN [s |-> Panicked(s), v |-> s.i] ELSE [s |-> s, v |-> s.i]

\* State::remaining: self.t.len() - self.i
remaining(s) == usize_sub(s, Len(tok), s.i)

\* State::has_remaining
has_remaining(s, many) ==
    Bind(remaining(s), LAMBDA r :
        [s |-> r.s, v |-> r.v >= many])

\* State::exhausted
exhausted_always(s) ==
    Bind(remaining(s), LAMBDA r :
        [s |-> r.s, v |-> TRUE])

exhausted(s) ==
    Bind(remaining(s), LAMBDA r :
        [s |-> r.s, v |-> r.v = 0])

\* State::not_exhausted
not_exhausted(s) ==
    Bind(remaining(s), LAMBDA r :
        [s |-> r.s, v |-> r.v # 0])

\* State::cursor_rounded_eq
cursor_rounded_eq_anywhere(s, t) ==
    Bind(minidx(s, s.i), LAMBDA mx :
    Bind(Index(mx.s, mx.v), LAMBDA a :
        [s |-> a.s, v |-> a.v = t]))

cursor_rounded_eq(s, t) ==
    Bind(minidx(s, s.i), LAMBDA mx :
    Bind(Index(mx.s, mx.v), LAMBDA a :
        [s |-> a.s, v |-> a.v = t /\ mx.v = s.i]))

\* State::cursor_has_ident_rounded
cursor_has_ident_rounded(s) ==
    Bind(minidx(s, s.i), LAMBDA mx :
    Bind(Index(mx.s, mx.v), LAMBDA a :
        IF is_ident(a.v) THEN not_exhausted(a.s) ELSE [s |-> a.s, v |-> FALSE]))

\* State::cursor_signature_match_entity_full_rounded
cursor_signature_match_entity_full_rounded(s) ==
    Bind(has_remaining(s, 3), LAMBDA rem :
    Bind(IF rem.v THEN 1 ELSE 0, LAMBDA rem_u :
    Bind(usize_add(rem.s, s.i, 1), LAMBDA i1 :
    Bind(usize_add(i1.s, s.i, 2), LAMBDA i2 :
    Bind(Index(i2.s, s.i * rem_u), LAMBDA a :
    Bind(Index(a.s, i1.v * rem_u), LAMBDA b :
    Bind(Index(b.s, i2.v * rem_u), LAMBDA c :
        [s |-> c.s, v |-> is_ident(a.v) /\ b.v = Sym(".") /\ is_ident(c.v) /\ rem.v])))))))

\* State::cursor_signature_match_fn_arity0_rounded
cursor_signature_match_fn_arity0_rounded(s) ==
    Bind(has_remaining(s, 3), LAMBDA rem :
    Bind(IF rem.v THEN 1 ELSE 0, LAMBDA rem_u :
    Bind(usize_add(rem.s, s.i, 1), LAMBDA i1 :
    Bind(usize_add(i1.s, s.i, 2), LAMBDA i2 :
    Bind(Index(i2.s, s.i * rem_u), LAMBDA a :
    Bind(Index(a.s, i1.v * rem_u), LAMBDA b :
    Bind(Index(b.s, i2.v * rem_u), LAMBDA c :
        [s |-> c.s, v |-> is_ident(a.v) /\ b.v = Sym("(") /\ c.v = Sym(")") /\ rem.v])))))))

\* State::cursor_is_ident
cursor_is_ident(s) ==
    Bind(read(s), LAMBDA r :
        [s |-> r.s, v |-> is_ident(r.v)])

(***************************************************************************)
(* SubstitutedData, the State's data source d when the literals come as    *)
(* parameters: data is the slice of the parameters not yet read.  src is   *)
(* the slice it was made of and nread the number of reads made of it.      *)
(***************************************************************************)
\* Token![?]
Placeholder == Sym("?")

\* a Token::Lit
Lit(v) == [k |-> "Lit", v |-> v]

\* Datacell::from(LitIR)
Datacell_from(l) == [cell |-> l]

\* SubstitutedData::new
SubstitutedData_new(src) == [data |-> src, src |-> src, nread |-> 0]

\* SubstitutedData::nonzero
nonzero(s) == s.d.data # <<>>

\* SubstitutedData::can_read_lit_from
can_read_lit_from(s, t) == Placeholder = t /\ nonzero(s)

\* SubstitutedData::read_lit: debug_assert (wrap: a build without it), data[0],
\* data = &data[1..]
read_lit_last(s, t) ==
    IF s.panic THEN [s |-> s, v |-> 0]
    ELSE IF ~s.wrap /\ Placeholder # t THEN [s |-> Panicked(s), v |-> 0]
    ELSE IF s.d.data = <<>> THEN [s |-> Panicked(s), v |-> 0]
    ELSE [s |-> [s EXCEPT !.d.data = SubSeq(@, 1, Len(@) - 1), !.d.nread = @ + 1],
          v |-> s.d.data[Len(s.d.data)]]

read_lit(s, t) ==
    IF s.panic THEN [s |-> s, v |-> 0]
    ELSE IF ~s.wrap /\ Placeholder # t THEN [s |-> Panicked(s), v |-> 0]
    ELSE IF s.d.data = <<>> THEN [s |-> Panicked(s), v |-> 0]
    ELSE [s |-> [s EXCEPT !.d.data = Tail(@), !.d.nread = @ + 1], v |-> s.d.data[1]]

\* SubstitutedData::read_data_type
read_data_type(s, t) ==
    IF s.panic THEN [s |-> s, v |-> 0]
    ELSE IF ~s.wrap /\ Placeholder # t THEN [s |-> Panicked(s), v |-> 0]
    ELSE IF s.d.data = <<>> THEN [s |-> Panicked(s), v |-> 0]
    ELSE [s |-> [s EXCEPT !.d.data = Tail(@), !.d.nread = @ + 1],
          v |-> Datacell_from(s.d.data[1])]

(***************************************************************************)
(* Entity.  Single(a) is <<a>>, Full(a, c) is <<a, c>>, and <<>> is the    *)
(* MaybeInit left uninitialized.                                           *)
(***************************************************************************)
\* Entity::full_entity_from_slice on the subslice starting at offset at
full_entity_from_slice(at) == <<tok[at + 1].v, tok[at + 3].v>>

\* Entity::single_entity_from_slice
single_entity_from_slice(at) == <<tok[at + 1].v>>

\* Entity::attempt_process_entity
attempt_process_entity(s) ==
    Bind(current(s), LAMBDA cur :
    Bind(cursor_signature_match_entity_full_rounded(cur.s), LAMBDA is_full :
    Bind(cursor_has_ident_rounded(is_full.s), LAMBDA is_single :
    Bind(is_single.s, LAMBDA s1 :
        IF s1.panic THEN [s |-> s1, v |-> <<>>]
        ELSE IF is_full.v
        THEN [s |-> poison_if_not(cursor_ahead_by(s1, 3), is_full.v \/ is_single.v),
              v |-> full_entity_from_slice(cur.v)]
        ELSE IF is_single.v
        THEN [s |-> poison_if_not(cursor_ahead(s1), is_full.v \/ is_single.v),
              v |-> single_entity_from_slice(cur.v)]
        ELSE [s |-> poison_if_not(s1, is_full.v \/ is_single.v), v |-> <<>>]))))

\* Entity::attempt_process_entity_result: ok says Ok(e), else Err(ExpectedEntity)
attempt_process_entity_result(s) ==
    Bind(attempt_process_entity(s), LAMBDA e :
        [s |-> e.s, ok |-> okay(e.s), v |-> IF okay(e.s) THEN e.v ELSE <<>>])

\* Entity::tokens_with_single on the subslice starting at offset at
tokens_with_single(at) == Len(tok) - at # 0 /\ is_ident(tok[at + 1])

\* Entity::tokens_with_full
tokens_with_full(at) ==
    /\ Len(tok) - at > 2
    /\ is_ident(tok[at + 1]) /\ tok[at + 2] = Sym(".") /\ is_ident(tok[at + 3])

\* Entity::parse_from_tokens(&tok[at..], &mut c): ok says Ok(v), else
\* Err(ExpectedEntity); c is the counter afterwards
parse_from_tokens_single_first(at, c) ==
    IF tokens_with_single(at) THEN [ok |-> TRUE, v |-> single_entity_from_slice(at), c |-> c + 1]
    ELSE IF tokens_with_full(at)
    THEN [ok |-> TRUE, v |-> full_entity_from_slice(at), c |-> c + 3]
    ELSE [ok |-> FALSE, v |-> <<>>, c |-> c]

parse_from_tokens(at, c) ==
    IF tokens_with_full(at) THEN [ok |-> TRUE, v |-> full_entity_from_slice(at), c |-> c + 3]
    ELSE IF tokens_with_single(at)
    THEN [ok |-> TRUE, v |-> single_entity_from_slice(at), c |-> c + 1]
    ELSE [ok |-> FALSE, v |-> <<>>, c |-> c]

(***************************************************************************)
(* Statements and errors: a LangResult<Statement> is [kind, entity, force].*)
(***************************************************************************)
Err(kind) == [kind |-> kind, entity |-> <<>>, force |-> FALSE]

Stmt(kind, entity, force) == [kind |-> kind, entity |-> entity, force |-> force]

\* an arm of compile that hands the state to ASTNode::from_state
FromState == Err("ASTNode::from_state")

\* DropSpace::parse
DropSpace_parse(s) ==
    Bind(cursor_is_ident(s), LAMBDA c :
        IF c.s.panic \/ ~c.v THEN [s |-> c.s, v |-> Err("UnexpectedToken")]
        ELSE
    Bind(fw_read(c.s), LAMBDA ident :
    Bind(cursor_rounded_eq(ident.s, Id("force")), LAMBDA force :
    Bind(cursor_ahead_if(force.s, force.v), LAMBDA s2 :
    Bind(exhausted(s2), LAMBDA ex :
        IF ex.v THEN [s |-> ex.s, v |-> Stmt("DropSpace", <<ident.v.v>>, force.v)]
        ELSE [s |-> ex.s, v |-> Err("UnexpectedToken")])))))

\* DropModel::parse
DropModel_parse_unexpected(s) ==
    Bind(attempt_process_entity_result(s), LAMBDA e :
        IF e.s.panic \/ ~e.ok THEN [s |-> e.s, v |-> Err("UnexpectedToken")]
        ELSE
    Bind(cursor_rounded_eq(e.s, Id("force")), LAMBDA force :
    Bind(cursor_ahead_if(force.s, force.v), LAMBDA s2 :
    Bind(exhausted(s2), LAMBDA ex :
        IF ex.v THEN [s |-> ex.s, v |-> Stmt("DropModel", e.v, force.v)]
        ELSE [s |-> ex.s, v |-> Err("UnexpectedToken")]))))

DropModel_parse(s) ==
    Bind(attempt_process_entity_result(s), LAMBDA e :
        IF e.s.panic \/ ~e.ok THEN [s |-> e.s, v |-> Err("ExpectedEntity")]
        ELSE
    Bind(cursor_rounded_eq(e.s, Id("force")), LAMBDA force :
    Bind(cursor_ahead_if(force.s, force.v), LAMBDA s2 :
    Bind(exhausted(s2), LAMBDA ex :
        IF ex.v THEN [s |-> ex.s, v |-> Stmt("DropModel", e.v, force.v)]
        ELSE [s |-> ex.s, v |-> Err("UnexpectedToken")]))))

\* ql/ddl/drop.rs parse_drop
parse_drop(s) ==
    Bind(fw_read(s), LAMBDA h :
        CASE h.v = Kw("model") -> DropModel_parse(h.s)
          [] h.v = Kw("space") -> DropSpace_parse(h.s)
          [] OTHER -> [s |-> h.s, v |-> Err("UnexpectedToken")])

\* ql/ddl.rs parse_drop
ddl_parse_drop(s) ==
    Bind(fw_read(s), LAMBDA h :
        IF h.v = Kw("model")
        THEN Bind(attempt_process_entity_result(h.s), LAMBDA e :
                 IF e.s.panic \/ ~e.ok THEN [s |-> e.s, v |-> Err("ExpectedEntity")]
                 ELSE
             Bind(cursor_rounded_eq(e.s, Id("force")), LAMBDA force :
             Bind(cursor_ahead_if(force.s, force.v), LAMBDA s2 :
             Bind(exhausted(s2), LAMBDA ex :
                 IF ex.v THEN [s |-> ex.s, v |-> Stmt("DropModel", e.v, force.v)]
                 ELSE [s |-> ex.s, v |-> Err("UnexpectedToken")]))))
        ELSE IF h.v # Kw("space") THEN [s |-> h.s, v |-> Err("UnexpectedToken")]
        ELSE
    Bind(cursor_is_ident(h.s), LAMBDA c :
        IF c.s.panic \/ ~c.v THEN [s |-> c.s, v |-> Err("UnexpectedToken")]
        ELSE
    Bind(fw_read(c.s), LAMBDA ident :
    Bind(cursor_rounded_eq(ident.s, Id("force")), LAMBDA force :
    Bind(cursor_ahead_if(force.s, force.v), LAMBDA s2 :
    Bind(exhausted(s2), LAMBDA ex :
        IF ex.v THEN [s |-> ex.s, v |-> Stmt("DropSpace", <<ident.v.v>>, force.v)]
        ELSE [s |-> ex.s, v |-> Err("UnexpectedToken")]))))))

\* ql/ddl.rs parse_inspect
parse_inspect(s) ==
    Bind(remaining(s), LAMBDA rem :
        IF rem.v < 1 THEN [s |-> rem.s, v |-> Err("UnexpectedEndofStatement")]
        ELSE
    Bind(fw_read(rem.s), LAMBDA h :
        IF h.v = Kw("model")
        THEN Bind(attempt_process_entity_result(h.s), LAMBDA e :
                 [s |-> e.s, v |-> IF e.ok THEN Stmt("InspectModel", e.v, FALSE)
                                   ELSE Err("ExpectedEntity")])
        ELSE
    Bind(IF h.v = Kw("space") THEN cursor_has_ident_rounded(h.s)
         ELSE [s |-> h.s, v |-> FALSE], LAMBDA space :
        IF space.v
        THEN Bind(fw_read(space.s), LAMBDA id :
                 [s |-> id.s, v |-> Stmt("InspectSpace", <<id.v.v>>, FALSE)])
        ELSE
    Bind(IF h.v # Kw("space") /\ is_ident(h.v) /\ eq_ignore_ascii_case(h.v.v, "spaces")
         THEN exhausted(space.s) ELSE [s |-> space.s, v |-> FALSE], LAMBDA spaces :
        IF spaces.v
        THEN [s |-> spaces.s, v |-> Stmt("InspectSpaces", <<>>, FALSE)]
        ELSE [s |-> cursor_back(spaces.s), v |-> Err("ExpectedStatement")]))))

\* compile: tok.len() < 2
compile_too_short_lt1 == Len(tok) < 1

compile_too_short_lt3 == Len(tok) < 3

compile_too_short == Len(tok) < 2

\* compile: the guard of the drop arm, state.remaining() >= 2
drop_arm_guard_ge1(s) == remaining(s).v >= 1

drop_arm_guard(s) == remaining(s).v >= 2

\* compile
compile ==
    IF compile_too_short THEN [s |-> State_new, v |-> Err("UnexpectedEOS")]
    ELSE
    Bind(fw_read(State_new), LAMBDA h :
        CASE h.v = Kw("use") ->
               Bind(attempt_process_entity_result(h.s), LAMBDA e :
                   [s |-> e.s, v |-> IF e.ok THEN Stmt("Use", e.v, FALSE)
                                     ELSE Err("ExpectedEntity")])
          [] h.v = Kw("create") ->
               Bind(fw_read(h.s), LAMBDA n :
                   [s |-> n.s, v |-> IF n.v \in {Kw("model"), Kw("space")} THEN FromState
                                     ELSE Err("StmtUnknownCreate")])
          [] h.v = Kw("alter") ->
               Bind(fw_read(h.s), LAMBDA n :
                   [s |-> n.s, v |-> IF n.v \in {Kw("model"), Kw("space")} THEN FromState
                                     ELSE Err("StmtUnknownAlter")])
          [] h.v = Kw("drop") /\ drop_arm_guard(h.s) -> parse_drop(h.s)
          [] is_ident(h.v) /\ eq_ignore_ascii_case(h.v.v, "inspect") -> parse_inspect(h.s)
          [] h.v \in {Kw("insert"), Kw("select"), Kw("update"), Kw("delete")} ->
               [s |-> h.s, v |-> FromState]
          [] OTHER -> [s |-> h.s, v |-> Err("ExpectedStatement")])

(***************************************************************************)
(* The compiler's state machine: a slice is handed over and compiled.      *)
(***************************************************************************)
SIdle ==
    /\ fs = NoFile
    /\ hist = <<NoFile>>
    /\ fh = [open |-> FALSE, pos |-> 0]
    /\ now = 0
    /\ last = NoCall
    /\ chain = NoChain
    /\ barrier = 0
    /\ nops = 0

InitQL ==
    /\ tok \in Slices(MaxLen)
    /\ st \in {State_in(FALSE), State_in(TRUE)}
    /\ qpre = st
    /\ qres = Err("none")
    /\ qpc = "start"
    /\ SIdle
    /\ LIdle

Compile ==
    /\ qpc = "start"
    /\ \E r \in {compile} :
           /\ st' = r.s
           /\ qres' = IF r.s.panic THEN Err("panic") ELSE r.v
    /\ qpc' = "done"
    /\ qpre' = State_new
    /\ UNCHANGED tok
    /\ UNCHANGED <<svars, lvars>>

NextQL == Compile

SpecQL == InitQL /\ [][NextQL]_vars

(***************************************************************************)
(* The parser's operations as entry points: a State over a slice, at any   *)
(* cursor and with either flag, on which the operations are called one     *)
(* after the other.  reads, rd and hi are those of the last call.          *)
(***************************************************************************)
\* the tokens of the slices the operations are called on
StateTokens == { Kw("model"), Id("x"), Id("force"), Sym(".") }

StateSlices(n) == UNION { [1..k -> StateTokens] : k \in 0..n }

\* the State as a call finds it
Fresh(s) == [s EXCEPT !.reads = <<>>, !.rd = <<>>, !.hi = s.i]

\* State { t, i, f }: the fields are set freely in the crate
State_at(i, f, wrap) == [State_in(wrap) EXCEPT !.i = i, !.f = f, !.hi = i]

\* an operation that returns nothing
Unit == [kind |-> "unit", entity |-> <<>>, force |-> FALSE]

InitState ==
    /\ tok \in StateSlices(MaxStLen)
    /\ \E i \in 0..(Len(tok) + 1), f \in BOOLEAN, wrap \in BOOLEAN :
           st = State_at(i, f, wrap)
    /\ qpre = st
    /\ qres = Err("none")
    /\ qpc = "start"
    /\ SIdle
    /\ LIdle

\* the call `op` was made on st and came back as r = [s, v]
Called(op, r) ==
    /\ qpc' = op
    /\ qpre' = Fresh(st)
    /\ st' = r.s
    /\ qres' = IF r.s.panic THEN Err("panic") ELSE r.v
    /\ UNCHANGED tok
    /\ UNCHANGED <<svars, lvars>>

\* the cursor is moved only while it is at most one past the end of the slice
MayMove == st.i <= Len(tok) + 1

Poison ==
    /\ ~st.panic
    /\ \E r \in {[s |-> poison(Fresh(st)), v |-> Unit]} : Called("poison", r)

PoisonIf(fuse) ==
    /\ ~st.panic
    /\ \E r \in {[s |-> poison_if(Fresh(st), fuse), v |-> Unit]} : Called("poison_if", r)

PoisonIfNot(fuse) ==
    /\ ~st.panic
    /\ \E r \in {[s |-> poison_if_not(Fresh(st), fuse), v |-> Unit]} :
           Called("poison_if_not", r)

CursorAhead ==
    /\ ~st.panic /\ MayMove
    /\ \E r \in {[s |-> cursor_ahead(Fresh(st)), v |-> Unit]} : Called("cursor_ahead", r)

CursorAheadBy(by) ==
    /\ ~st.panic /\ MayMove
    /\ \E r \in {[s |-> cursor_ahead_by(Fresh(st), by), v |-> Unit]} :
           Called("cursor_ahead_by", r)

CursorAheadIf(iff) ==
    /\ ~st.panic /\ MayMove
    /\ \E r \in {[s |-> cursor_ahead_if(Fresh(st), iff), v |-> Unit]} :
           Called("cursor_ahead_if", r)

CursorBack ==
    /\ ~st.panic /\ MayMove
    /\ \E r \in {[s |-> cursor_back(Fresh(st)), v |-> Unit]} : Called("cursor_back", r)

Read ==
    /\ ~st.panic
    /\ \E r \in {read(Fresh(st))} :
           Called("read", [s |-> r.s, v |-> [Unit EXCEPT !.kind = "token"]])

FwRead ==
    /\ ~st.panic
    /\ \E r \in {fw_read(Fresh(st))} :
           Called("fw_read", [s |-> r.s, v |-> [Unit EXCEPT !.kind = "token"]])

AttemptProcessEntity ==
    /\ ~st.panic
    /\ \E r \in {attempt_process_entity(Fresh(st))} :
           Called("attempt_process_entity",
                  [s |-> r.s, v |-> [Unit EXCEPT !.kind = "entity", !.entity = r.v]])

AttemptProcessEntityResult ==
    /\ ~st.panic
    /\ \E r \in {attempt_process_entity_result(Fresh(st))} :
           Called("attempt_process_entity_result",
                  [s |-> r.s, v |-> IF r.ok THEN Stmt("Ok", r.v, FALSE)
                                    ELSE Err("ExpectedEntity")])

DropModelParse ==
    /\ ~st.panic
    /\ \E r \in {DropModel_parse(Fresh(st))} : Called("DropModel::parse", r)

DropSpaceParse ==
    /\ ~st.panic
    /\ \E r \in {DropSpace_parse(Fresh(st))} : Called("DropSpace::parse", r)

NextState ==
    \/ Poison
    \/ \E fuse \in BOOLEAN : PoisonIf(fuse)
    \/ \E fuse \in BOOLEAN : PoisonIfNot(fuse)
    \/ CursorAhead
    \/ \E by \in {0, 3} : CursorAheadBy(by)
    \/ \E iff \in BOOLEAN : CursorAheadIf(iff)
    \/ CursorBack
    \/ Read
    \/ FwRead
    \/ AttemptProcessEntity
    \/ AttemptProcessEntityResult
    \/ DropModelParse
    \/ DropSpaceParse

SpecState == InitState /\ [][NextState]_vars

(***************************************************************************)
(* The State's rounded queries (&self): each is called on a State over a   *)
(* slice, at any cursor, and answers with a bool.                          *)
(***************************************************************************)
\* the tokens of the slices the rounded queries are called on
RoundedTokens == { Id("x"), Sym("."), Sym("("), Sym(")") }

RoundedSlices(n) == UNION { [1..k -> RoundedTokens] : k \in 0..n }

\* a query's answer v, to the argument arg
Bool(v, arg) == [kind |-> "bool", v |-> v, arg |-> arg]

InitRounded ==
    /\ tok \in RoundedSlices(MaxRdLen)
    /\ \E i \in 0..(Len(tok) + 1), f \in BOOLEAN, wrap \in BOOLEAN :
           st = State_at(i, f, wrap)
    /\ qpre = st
    /\ qres = Err("none")
    /\ qpc = "start"
    /\ SIdle
    /\ LIdle

CursorRoundedEq(t) ==
    /\ ~st.panic
    /\ \E r \in {cursor_rounded_eq(Fresh(st), t)} :
           Called("cursor_rounded_eq", [s |-> r.s, v |-> Bool(r.v, t)])

CursorSignatureMatchFnArity0Rounded ==
    /\ ~st.panic
    /\ \E r \in {cursor_signature_match_fn_arity0_rounded(Fresh(st))} :
           Called("cursor_signature_match_fn_arity0_rounded",
                  [s |-> r.s, v |-> Bool(r.v, NoToken)])

CursorSignatureMatchEntityFullRounded ==
    /\ ~st.panic
    /\ \E r \in {cursor_signature_match_entity_full_rounded(Fresh(st))} :
           Called("cursor_signature_match_entity_full_rounded",
                  [s |-> r.s, v |-> Bool(r.v, NoToken)])

NextRounded ==
    \/ \E t \in RoundedTokens : CursorRoundedEq(t)
    \/ CursorSignatureMatchFnArity0Rounded
    \/ CursorSignatureMatchEntityFullRounded

SpecRounded == InitRounded /\ [][NextRounded]_vars

(***************************************************************************)
(* The State's data source: a State is made over a SubstitutedData of some *)
(* parameters, and the parser asks it for literals, token by token.        *)
(***************************************************************************)
\* the literals the parameters are drawn from
Lits == {1, 2}

\* every parameter vector of at most n literals
Params(n) == UNION { [1..k -> Lits] : k \in 0..n }

\* the tokens the data source is asked about
DataTokens == { Placeholder, Lit(1) }

\* what the data source returned when asked about the token arg
Read_(kind, v, arg) == [kind |-> kind, v |-> v, arg |-> arg]

InitData ==
    /\ tok = <<>>
    /\ \E p \in Params(MaxParams), wrap \in BOOLEAN :
           st = [State_in(wrap) EXCEPT !.d = SubstitutedData_new(p)]
    /\ qpre = st
    /\ qres = Err("none")
    /\ qpc = "start"
    /\ SIdle
    /\ LIdle

\* the call `op` was made of st.d for the token arg: it left the State s and returned
\* v of the given kind, or panicked
Asked(op, s, kind, v, arg) ==
    /\ qpc' = op
    /\ qpre' = Fresh(st)
    /\ st' = s
    /\ qres' = Read_(IF s.panic THEN "panic" ELSE kind, v, arg)
    /\ UNCHANGED tok
    /\ UNCHANGED <<svars, lvars>>

Nonzero ==
    /\ ~st.panic
    /\ Asked("nonzero", Fresh(st), "bool", nonzero(st), NoToken)

CanReadLitFrom(t) ==
    /\ ~st.panic
    /\ Asked("can_read_lit_from", Fresh(st), "bool", can_read_lit_from(st, t), t)

ReadLit(t) ==
    /\ ~st.panic
    /\ \E r \in {read_lit(Fresh(st), t)} : Asked("read_lit", r.s, "LitIR", r.v, t)

ReadDataType(t) ==
    /\ ~st.panic
    /\ \E r \in {read_data_type(Fresh(st), t)} :
           Asked("read_data_type", r.s, "Datacell", r.v, t)

NextData ==
    \/ Nonzero
    \/ \E t \in DataTokens : CanReadLitFrom(t)
    \/ \E t \in DataTokens : ReadLit(t)
    \/ \E t \in DataTokens : ReadDataType(t)

SpecData == InitData /\ [][NextData]_vars

(***************************************************************************)
(* The CLI's tokenizer (cli/src/tokenizer.rs).  The input is a slice of    *)
(* bytes, held in tok; get_query walks it with a peekable iterator, of     *)
(* which k is the number of bytes taken so far, and pushes the elements of *)
(* the query.  A result is [kind, query, near].                            *)
(***************************************************************************)
\* the bytes the inputs are made of: a, 1, space, tab, newline, ' and "
Bytes == {97, 49, 32, 9, 10, 39, 34}

\* every input of at most n bytes
Inputs(n) == UNION { [1..k -> Bytes] : k \in 0..n }

\* inp[a..b], offsets from 0, b excluded
Slice(a, b) == SubSeq(tok, a + 1, b)

\* b'0'..=b'9'
is_digit(b) == b >= 48 /\ b <= 57

\* Ok(query)
QOk(query) == [kind |-> "Ok", query |-> query, near |-> <<>>]

\* Err(TokenizerError::kind(near))
QErr(kind, near) == [kind |-> kind, query |-> <<>>, near |-> near]

\* it.position(|x| *x == q) with k bytes taken: the bytes skipped before the first q,
\* -1 (None) if there is none; the iterator is then past that q, or at the end
position_either(k, q) ==
    IF \E j \in (k + 1)..Len(tok) : tok[j] \in {39, 34}
    THEN (CHOOSE j \in (k + 1)..Len(tok) :
              tok[j] \in {39, 34} /\ \A h \in (k + 1)..(j - 1) : tok[h] \notin {39, 34}) - (k + 1)
    ELSE -1

position(k, q) ==
    IF \E j \in (k + 1)..Len(tok) : tok[j] = q
    THEN (CHOOSE j \in (k + 1)..Len(tok) :
              tok[j] = q /\ \A h \in (k + 1)..(j - 1) : tok[h] # q) - (k + 1)
    ELSE -1

\* the wildcard arm's inner loop, with k bytes taken and the element ending at end:
\* [k, end] when the loop is left
RECURSIVE peek_loop(_, _)
peek_loop(k, end) ==
    IF k >= Len(tok) THEN [k |-> k, end |-> end]
    ELSE IF tok[k + 1] = 32 THEN [k |-> k + 1, end |-> end]
    ELSE peek_loop(k + 1, end + 1)

\* the quote arms: query.push(&inp[pos..idx + pos])
quoted_to_idx(pos, idx) == Slice(pos, idx)

quoted(pos, idx) == Slice(pos, idx + pos)

\* get_query's `while let Some(tok) = it.next()`, with k bytes taken
RECURSIVE get_query_loop(_, _)
get_query_loop(k, query) ==
    IF k >= Len(tok) THEN QOk(query)
    ELSE IF is_digit(tok[k + 1]) THEN QErr("BadExpression", Slice(0, k + 1))
    ELSE IF tok[k + 1] \in {39, 34}
    THEN Bind(position(k + 1, tok[k + 1]), LAMBDA qidx :
             IF qidx >= 0
             THEN get_query_loop(k + 1 + qidx + 1, Append(query, quoted(k + 1, qidx)))
             ELSE QErr("QuoteMismatch", Slice(k + 1, Len(tok))))
    ELSE IF tok[k + 1] = 32 THEN get_query_loop(k + 1, query)
    ELSE Bind(peek_loop(k + 1, k), LAMBDA w :
             get_query_loop(w.k, Append(query, Slice(k, w.end + 1))))

\* get_query
get_query ==
    IF tok = <<>> THEN QErr("panic", <<>>)
    ELSE get_query_loop(0, <<>>)

InitCli ==
    /\ tok \in Inputs(MaxInp)
    /\ st = State_in(FALSE)
    /\ qpre = st
    /\ qres = QErr("none", <<>>)
    /\ qpc = "start"
    /\ SIdle
    /\ LIdle

GetQuery ==
    /\ qpc = "start"
    /\ qres' = get_query
    /\ qpc' = "get_query"
    /\ UNCHANGED <<tok, st, qpre>>
    /\ UNCHANGED <<svars, lvars>>

NextCli == GetQuery

SpecCli == InitCli /\ [][NextCli]_vars

(***************************************************************************)
(* The token fuzzer of the parser's tests (ql/tests.rs fuzz_tokens).  tok  *)
(* is src_tokens; a round builds one candidate new_src and hands it to the *)
(* verifier.  added[p] is the number the random source gave at the fuzz    *)
(* target at position p, and verdict what fuzzverify returned.             *)
(***************************************************************************)
\* Token::IgnorableComma
IgnorableComma == [k |-> "IgnorableComma", v |-> ""]

\* Token::Symbol(Symbol::SymComma)
SymComma == Sym(",")

FUZZ_TARGETS == {SymComma, IgnorableComma}

\* the tokens src lexes to
FuzzTokens == {SymComma, IgnorableComma, Id("x")}

FuzzSlices(n) == UNION { [1..k -> FuzzTokens] : k \in 0..n }

\* inject: n commas are pushed, and the growth of new_src is returned
inject_once(new_src, n) ==
    Bind(IF n > 0 THEN Append(new_src, SymComma) ELSE new_src, LAMBDA pushed :
        [new_src |-> pushed, added |-> Len(pushed) - Len(new_src)])

inject(new_src, n) ==
    Bind(new_src \o [j \in 1..n |-> SymComma], LAMBDA pushed :
        [new_src |-> pushed, added |-> Len(pushed) - Len(new_src)])

\* src_tokens.iter().for_each(..) from position p on
RECURSIVE for_each_tok(_, _, _)
for_each_tok(p, c, rnd) ==
    IF p > Len(tok) THEN c
    ELSE IF tok[p] = IgnorableComma
    THEN Bind(inject(c.new_src, rnd[p]), LAMBDA r :
             for_each_tok(p + 1, [new_src |-> r.new_src,
                                  should_pass |-> c.should_pass /\ r.added <= 1], rnd))
    ELSE IF tok[p] = SymComma
    THEN Bind(inject(c.new_src, rnd[p]), LAMBDA r :
             for_each_tok(p + 1, [new_src |-> r.new_src,
                                  should_pass |-> c.should_pass /\ r.added = 1], rnd))
    ELSE for_each_tok(p + 1, [c EXCEPT !.new_src = Append(@, tok[p])], rnd)

\* the number of fuzz targets in src_tokens
fuzz_amount == Cardinality({p \in 1..Len(tok) : tok[p] \in FUZZ_TARGETS})

\* the rounds of `for _ in 0..(fuzz_amount.pow(3))`, of which at most MaxRounds are run
Rounds ==
    IF fuzz_amount * fuzz_amount * fuzz_amount < MaxRounds
    THEN fuzz_amount * fuzz_amount * fuzz_amount ELSE MaxRounds

NoRound ==
    [round |-> 0, added |-> <<>>, new_src |-> <<>>, should_pass |-> TRUE,
     verdict |-> FALSE, panic |-> FALSE]

InitFuzz ==
    /\ tok \in FuzzSlices(MaxSrc)
    /\ st = State_in(FALSE)
    /\ qpre = st
    /\ qres = NoRound
    /\ qpc = "start"
    /\ SIdle
    /\ LIdle

\* one round of the loop: the candidate is built and verified
FuzzRound(rnd, verdict) ==
    /\ ~qres.panic
    /\ qres.round < Rounds
    /\ \E c \in {for_each_tok(1, [new_src |-> <<>>, should_pass |-> TRUE], rnd)} :
           qres' = [round |-> qres.round + 1, added |-> rnd, new_src |-> c.new_src,
                    should_pass |-> c.should_pass, verdict |-> verdict,
                    panic |-> verdict /\ ~c.should_pass]
    /\ qpc' = "fuzz_tokens"
    /\ UNCHANGED <<tok, st, qpre>>
    /\ UNCHANGED <<svars, lvars>>

\* what the random source gives: a number for each fuzz target
Randoms ==
    { [p \in 1..Len(tok) |-> IF tok[p] \in FUZZ_TARGETS THEN f[p] ELSE 0] :
          f \in [1..Len(tok) -> 0..MaxInject] }

NextFuzz == \E rnd \in Randoms, verdict \in BOOLEAN : FuzzRound(rnd, verdict)

SpecFuzz == InitFuzz /\ [][NextFuzz]_vars

(***************************************************************************)
(* The parser's twin implementations, called side by side on one State:    *)
(* the two parse_drop (ql/ddl.rs and ql/ddl/drop.rs), and                  *)
(* Entity::parse_from_tokens beside Entity::attempt_process_entity.        *)
(***************************************************************************)
\* the tokens of the slices the twins are called on
TwinTokens == { Kw("model"), Kw("space"), Id("x"), Id("force"), Sym(".") }

TwinSlices(n) == UNION { [1..k -> TwinTokens] : k \in 0..n }

\* what a call that left the State s returned
Returned(s, v) == IF s.panic THEN Err("panic") ELSE v

InitTwin ==
    /\ tok \in TwinSlices(MaxTwinLen)
    /\ \E i \in 0..Len(tok), f \in BOOLEAN, wrap \in BOOLEAN :
           st = State_at(i, f, wrap)
    /\ qpre = st
    /\ qres = Err("none")
    /\ qpc = "start"
    /\ SIdle
    /\ LIdle

\* both parse_drop are called on the State: st is what drop.rs's left, qres holds
\* what each returned and the State that ddl.rs's left
ParseDropTwice ==
    /\ qpc = "start"
    /\ \E a \in {parse_drop(Fresh(st))}, b \in {ddl_parse_drop(Fresh(st))} :
           /\ st' = a.s
           /\ qres' = [kind |-> "parse_drop", drop |-> Returned(a.s, a.v),
                       ddl |-> Returned(b.s, b.v), ddl_state |-> b.s]
    /\ qpc' = "parse_drop"
    /\ qpre' = Fresh(st)
    /\ UNCHANGED tok
    /\ UNCHANGED <<svars, lvars>>

\* attempt_process_entity is called on the State, and parse_from_tokens on the tokens
\* from its cursor on, with the cursor as the counter
ParseEntityTwice ==
    /\ qpc = "start"
    /\ \E a \in {attempt_process_entity(Fresh(st))}, b \in {parse_from_tokens(st.i, st.i)} :
           /\ st' = a.s
           /\ qres' = [kind |-> "entity", entity |-> Returned(a.s, a.v), from_tokens |-> b]
    /\ qpc' = "entity"
    /\ qpre' = Fresh(st)
    /\ UNCHANGED tok
    /\ UNCHANGED <<svars, lvars>>

NextTwin ==
    \/ ParseDropTwice
    \/ ParseEntityTwice

SpecTwin == InitTwin /\ [][NextTwin]_vars

(***************************************************************************)
(* The LSET action (server/src/actions/lists/mod.rs).  The calls run       *)
(* concurrently on the default table, which is taken to be a list map, and *)
(* all name the same list.  The map's entry API, the registry and the      *)
(* macros of the action are not part of the sources modelled: a vacant     *)
(* entry keeps the map's lock on its key from fresh_entry to insert.       *)
(***************************************************************************)
\* the values a call may carry, after the list's name
LsetValues == { <<"a">>, <<"a", "b">>, <<"b", "a">> }

\* the arguments of a call: none, or the list's name followed by values
Acts == { <<>> } \cup { <<"l">> \o v : v \in LsetValues }

\* a call not yet begun, with arguments act
Call_in(act) ==
    [act |-> act, pc |-> "begin", saw |-> FALSE, did |-> FALSE, reply |-> "none"]

\* registry::state_okay()
state_okay(reg) == reg

\* some other call holds a vacant entry for the name, and with it the map's lock
entry_locked(cs, c) == \E o \in DOMAIN cs : o # c /\ cs[o].pc = "insert"

\* Coremap::fresh_entry: an entry if and only if nothing is stored under the key
fresh_entry(m) == ~m.some

\* act.map(Data::copy_from_slice).collect(): what remains of the arguments, in order
collect(act) == Tail(act)

OKAY_OVW_BLUT_swapped(did) == IF did THEN "OVERWRITE_ERR" ELSE "OKAY"

\* BytesBoolTable::new(groups::OKAY, groups::OVERWRITE_ERR), indexed by did
OKAY_OVW_BLUT(did) == IF did THEN "OKAY" ELSE "OVERWRITE_ERR"

InitLset ==
    /\ SIdle
    /\ QIdle
    /\ registry \in BOOLEAN
    /\ listmap \in { NoList, [some |-> TRUE, v |-> <<"z">>] }
    /\ calls \in [1..MaxCalls -> { Call_in(a) : a \in Acts }]

\* err_if_len_is!(act, con, lt 1), get_tbl!, listmap!, next_unchecked_bytes
LsetBegin(c) ==
    /\ calls[c].pc = "begin"
    /\ calls' = [calls EXCEPT ![c] =
                    IF Len(@.act) < 1
                    THEN [@ EXCEPT !.pc = "done", !.reply = "ACTION_ERR"]
                    ELSE [@ EXCEPT !.pc = "state_okay"]]
    /\ UNCHANGED <<registry, listmap>>
    /\ UNCHANGED <<svars, qvars>>

\* if registry::state_okay() { .. } else { conwrite!(con, groups::SERVER_ERR)?; }
StateOkay(c) ==
    /\ calls[c].pc = "state_okay"
    /\ calls' = [calls EXCEPT ![c] =
                    IF state_okay(registry)
                    THEN [@ EXCEPT !.pc = "fresh_entry", !.saw = TRUE]
                    ELSE [@ EXCEPT !.pc = "done", !.reply = "SERVER_ERR"]]
    /\ UNCHANGED <<registry, listmap>>
    /\ UNCHANGED <<svars, qvars>>

\* if let Some(entry) = list.fresh_entry(listname.into()) { .. } else { false }
FreshEntry(c) ==
    /\ calls[c].pc = "fresh_entry"
    /\ ~entry_locked(calls, c)
    /\ calls' = [calls EXCEPT ![c] =
                    IF fresh_entry(listmap)
                    THEN [@ EXCEPT !.pc = "insert"]
                    ELSE [@ EXCEPT !.pc = "conwrite", !.did = FALSE]]
    /\ UNCHANGED <<registry, listmap>>
    /\ UNCHANGED <<svars, qvars>>

\* let v = act.map(..).collect(); entry.insert(LockedVec::new(v)); true
Insert(c) ==
    /\ calls[c].pc = "insert"
    /\ listmap' = [some |-> TRUE, v |-> collect(calls[c].act)]
    /\ calls' = [calls EXCEPT ![c] = [@ EXCEPT !.pc = "conwrite", !.did = TRUE]]
    /\ UNCHANGED registry
    /\ UNCHANGED <<svars, qvars>>

\* conwrite!(con, OKAY_OVW_BLUT[did])?
Conwrite(c) ==
    /\ calls[c].pc = "conwrite"
    /\ calls' = [calls EXCEPT ![c] =
                    [@ EXCEPT !.pc = "done", !.reply = OKAY_OVW_BLUT(calls[c].did)]]
    /\ UNCHANGED <<registry, listmap>>
    /\ UNCHANGED <<svars, qvars>>

\* the rest of the server changes the registry's state at any time
RegistryFlip ==
    /\ registry' = ~registry
    /\ UNCHANGED <<listmap, calls>>
    /\ UNCHANGED <<svars, qvars>>

NextLset ==
    \/ \E c \in DOMAIN calls : LsetBegin(c)
    \/ \E c \in DOMAIN calls : StateOkay(c)
    \/ \E c \in DOMAIN calls : FreshEntry(c)
    \/ \E c \in DOMAIN calls : Insert(c)
    \/ \E c \in DOMAIN calls : Conwrite(c)
    \/ RegistryFlip

SpecLset == InitLset /\ [][NextLset]_vars

(***************************************************************************)
(* Properties of the file driver.                                          *)
(***************************************************************************)
\* the header region [0, header_size) of a file
Hdr(f) == SubSeq(f.bytes, 1, HeaderSize)

\* the last n cells of a file
LastCells(f, n) == SubSeq(f.bytes, Len(f.bytes) - n + 1, Len(f.bytes))

\* the last call was an open_or_create_perm_rw that returned Existing
OpenedExisting == last.op = "open" /\ last.res = "Existing"

\* the header the file held before the last call
PreHeader == decode_noverify(Hdr(last.pre))

\* the header of the last open's arguments, with modify counter 0
ArgsHeader ==
    new_auto(last.args.file_scope, last.args.file_specifier,
             last.args.file_specifier_version, last.args.host_setting_version,
             last.args.host_run_mode, last.args.host_startup_counter, 0)

\* the last open's tuple is the tuple of the header the file held
ArgsMatchPre ==
    verify(PreHeader.h, last.args.file_scope, last.args.file_specifier,
           last.args.file_specifier_version)

\* C1: after open_or_create_perm_rw succeeds on an existing file, the header region
\* [0, header_size) holds the original header with its modify counter incremented by
\* exactly 1 and every other field unchanged (the bumped header replaces the old one
\* at offset 0).
C1_BumpedHeaderAtOffset0 ==
    OpenedExisting =>
        /\ last.hdr = PreHeader.h
        /\ Hdr(fs) = encoded(bump_modify_count(PreHeader.h))

\* C2: in a run of successful opens of one tuple since the file was created, the k-th
\* reopen returns Existing with the run's tuple, the header it returns has modify
\* counter k-1, and the header in the file afterwards has modify counter k.
C2_ModifyCounterPerReopen ==
    (last.op = "open" /\ chain.n >= 1) =>
        /\ last.res = "Existing"
        /\ <<last.hdr.scope, last.hdr.specifier, last.hdr.specifier_version>> = chain.tuple
        /\ last.hdr.modify_counter = chain.n - 1
        /\ decode_noverify(Hdr(fs)).h.modify_counter = chain.n

\* C3: after fsynced_write(b) appended b and returned Ok and the handle was closed,
\* a successful reopen with the file's tuple leaves b as the last |b| cells of the file.
C3_WrittenTailSurvivesReopen ==
    (/\ last.op = "open" /\ last.res \in {"Created", "Existing"}
     /\ last.b # <<>>
     /\ PreHeader.some /\ ArgsMatchPre) =>
        /\ Len(fs.bytes) >= Len(last.b)
        /\ LastCells(fs, Len(last.b)) = last.b

\* C4: when open_or_create_perm_rw returns Existing, the file's length and every cell
\* at offset >= header_size are as before the call.
C4_OpenKeepsBody ==
    OpenedExisting =>
        /\ Len(fs.bytes) = Len(last.pre.bytes)
        /\ \A k \in (HeaderSize + 1)..Len(fs.bytes) : fs.bytes[k] = last.pre.bytes[k]

\* C5: open_or_create_perm_rw takes the Created path only for a file whose length is 0
\* at open: a file that already holds a header is never classified as Created (and so
\* never has its header reset).
C5_CreatedOnlyWhenEmpty ==
    (last.op = "open" /\ last.raw = "Created") =>
        ~(Len(last.pre.bytes) >= HeaderSize /\ PreHeader.some)

\* C6: open_or_create_perm_rw on an existing file returns CorruptedHeader when the
\* first header_size cells do not decode, and HeaderMismatch when they decode but the
\* tuple differs from the caller's.
C6_ErrorKindsOnExistingFile ==
    (/\ last.op = "open" /\ last.io = "none"
     /\ last.pre.exists /\ Len(last.pre.bytes) >= HeaderSize) =>
        /\ ~PreHeader.some => last.res = "CorruptedHeader"
        /\ (PreHeader.some /\ ~ArgsMatchPre) => last.res = "HeaderMismatch"

\* C7: when the raw open reports Created, the caller's header with modify counter 0 is
\* written at offset 0 and synced before Created is returned, the file then has length
\* header_size, and a failing write or sync returns the error instead of Created.
C7_CreatedWritesOneHeader ==
    (last.op = "open" /\ last.raw = "Created") =>
        /\ last.io = "none" =>
              /\ last.res = "Created"
              /\ Hdr(fs) = ArgsHeader
              /\ Len(fs.bytes) = HeaderSize
              /\ hist = <<fs>>
        /\ last.io \in {"write", "sync"} => last.res = "IoError"

\* C8: fsynced_write is a durability barrier: a crash never takes the file back
\* behind its state at the last fsynced_write that returned Ok.
C8_FsyncedWriteIsBarrier ==
    (last.op = "crash" /\ last.barrier > 0) => last.kept >= last.barrier

\* a crash after an fsynced_write returned Ok, in which a later unsynced write was lost
C8_Witness ==
    /\ last.op = "crash"
    /\ last.prev = "unfsynced_write"
    /\ last.barrier > 0
    /\ last.lost > 0
    /\ Len(fs.bytes) > HeaderSize
    /\ Len(last.pre.bytes) > Len(fs.bytes)

(***************************************************************************)
(* Properties of the compiler.                                             *)
(***************************************************************************)
Compiled == qpc = "done"

\* the statements compile's own arms and parse_drop, parse_inspect produce
StatementKinds ==
    {"Use", "DropModel", "DropSpace", "InspectModel", "InspectSpace", "InspectSpaces"}

\* the syntactic error kinds
ErrorKinds ==
    {"UnexpectedEOS", "UnexpectedEndofStatement", "ExpectedStatement", "ExpectedEntity",
     "UnexpectedToken", "StmtUnknownCreate", "StmtUnknownAlter"}

\* the slice's head sends compile to ASTNode::from_state
HeadToFromState ==
    /\ Len(tok) >= 2
    /\ \/ tok[1] \in {Kw("create"), Kw("alter")} /\ tok[2] \in {Kw("model"), Kw("space")}
       \/ tok[1] \in {Kw("insert"), Kw("select"), Kw("update"), Kw("delete")}

\* C9: compile on a slice of fewer than 2 tokens returns UnexpectedEOS without
\* reading any token.
C9_ShortSliceIsUnexpectedEOS ==
    (Compiled /\ Len(tok) < 2) =>
        /\ qres = Err("UnexpectedEOS")
        /\ st.reads = <<>>
        /\ st.i = 0

\* the single-token slice `use` was compiled to UnexpectedEOS
C9_Witness ==
    /\ Compiled
    /\ tok = <<Kw("use")>>
    /\ qres.kind = "UnexpectedEOS"

\* C10: on every slice whose head is use, drop, inspect, create or alter followed by
\* an unknown keyword, or an unrecognized token, compile does not panic (no index out
\* of bounds, no cursor underflow) and returns a statement or one of the enumerated
\* error kinds.
C10_CompileNeverPanics ==
    (Compiled /\ ~HeadToFromState) =>
        /\ ~st.panic
        /\ \A k \in 1..Len(st.reads) : st.reads[k] >= 0 /\ st.reads[k] < Len(tok)
        /\ st.i >= 0
        /\ qres.kind \in StatementKinds \cup ErrorKinds

\* `drop space x force` was compiled to DropSpace, reading up to the last token
C10_Witness ==
    /\ Compiled
    /\ tok = <<Kw("drop"), Kw("space"), Id("x"), Id("force")>>
    /\ qres = Stmt("DropSpace", <<"x">>, TRUE)
    /\ st.i = 4

(***************************************************************************)
(* Properties of the parser's operations.                                  *)
(***************************************************************************)
\* the tokens at offsets i, i+1, i+2 are ident '.' ident
FullAt(i) ==
    /\ i + 3 <= Len(tok)
    /\ is_ident(tok[i + 1]) /\ tok[i + 2] = Sym(".") /\ is_ident(tok[i + 3])

\* the token at offset i is an ident
SingleAt(i) == i < Len(tok) /\ is_ident(tok[i + 1])

\* the entity that starts at offset i, <<>> if none does
EntityAt(i) ==
    IF FullAt(i) THEN <<tok[i + 1].v, tok[i + 3].v>>
    ELSE IF SingleAt(i) THEN <<tok[i + 1].v>>
    ELSE <<>>

\* C11: attempt_process_entity on a state with cursor <= tokens.len(): on ident '.'
\* ident at the cursor it writes Full(first, third) and advances the cursor by 3;
\* otherwise on an ident it writes Single(ident) and advances by 1; otherwise it
\* poisons the state, leaves the cursor where it was and writes nothing.
C11_AttemptProcessEntity ==
    (qpc = "attempt_process_entity" /\ qpre.i <= Len(tok)) =>
        /\ ~st.panic
        /\ qres.entity = EntityAt(qpre.i)
        /\ st.i = qpre.i + (IF FullAt(qpre.i) THEN 3 ELSE IF SingleAt(qpre.i) THEN 1 ELSE 0)
        /\ st.f = (qpre.f /\ EntityAt(qpre.i) # <<>>)

\* C11 on the slices that hold a token
C11_OnNonEmptySlice == Len(tok) >= 1 => C11_AttemptProcessEntity

\* C12: attempt_process_entity_result returns Ok(entity) only when the state is okay
\* after the attempt, and ExpectedEntity whenever it is poisoned afterwards: when no
\* entity starts at the cursor (the cursor at end-of-stream included) and when the
\* state was poisoned before the call; an Ok carries the entity that was written.
C12_AttemptProcessEntityResult ==
    (qpc = "attempt_process_entity_result" /\ qpre.i <= Len(tok)) =>
        /\ qres.kind \in {"Ok", "ExpectedEntity"}
        /\ qres.kind = "Ok" <=> st.f
        /\ (EntityAt(qpre.i) = <<>> \/ ~qpre.f) => qres = Err("ExpectedEntity")
        /\ qres.kind = "Ok" => (qres.entity = EntityAt(qpre.i) /\ qres.entity # <<>>)

\* C12 on the slices that hold a token
C12_OnNonEmptySlice == Len(tok) >= 1 => C12_AttemptProcessEntityResult

\* the number of tokens of the entity that starts at offset i
EntityLen(i) == IF FullAt(i) THEN 3 ELSE IF SingleAt(i) THEN 1 ELSE 0

\* what is to come of `<what> [force]` followed by end-of-stream, when <what> ends
\* before offset j
ForceThenEnd(kind, what, j) ==
    IF j = Len(tok) THEN Stmt(kind, what, FALSE)
    ELSE IF j + 1 = Len(tok) /\ tok[j + 1] = Id("force") THEN Stmt(kind, what, TRUE)
    ELSE Err("UnexpectedToken")

\* C13: for `drop model`, DropModel::parse accepts exactly an entity, then an optional
\* single `force`, then end-of-stream, and produces DropModel{entity, force} with force
\* true iff `force` was there; a token left after that yields UnexpectedToken and a
\* missing entity yields ExpectedEntity.
C13_DropModel ==
    (qpc = "DropModel::parse" /\ qpre.f /\ qpre.i <= Len(tok) /\ Len(tok) >= 1) =>
        qres = IF EntityAt(qpre.i) = <<>> THEN Err("ExpectedEntity")
               ELSE ForceThenEnd("DropModel", EntityAt(qpre.i), qpre.i + EntityLen(qpre.i))

\* `x . force force` was parsed as DropModel{Full(x, force), force: true}
C13_Witness ==
    /\ qpc = "DropModel::parse"
    /\ qpre.f /\ qpre.i = 0
    /\ tok = <<Id("x"), Sym("."), Id("force"), Id("force")>>
    /\ qres = Stmt("DropModel", <<"x", "force">>, TRUE)
    /\ st.i = 4

\* C14: for `drop space`, DropSpace::parse accepts exactly one identifier, then an
\* optional single `force`, then end-of-stream, and produces DropSpace{space, force}
\* with force true iff `force` was there; a non-identifier in the name position or a
\* token left after the optional `force` yields UnexpectedToken.
C14_DropSpace ==
    (qpc = "DropSpace::parse" /\ qpre.i < Len(tok)) =>
        qres = IF ~is_ident(tok[qpre.i + 1]) THEN Err("UnexpectedToken")
               ELSE ForceThenEnd("DropSpace", <<tok[qpre.i + 1].v>>, qpre.i + 1)

\* `model force force` after `model` was parsed as DropSpace{force, force: true}
C14_Witness ==
    /\ qpc = "DropSpace::parse"
    /\ qpre.i = 1
    /\ tok = <<Kw("model"), Id("force"), Id("force")>>
    /\ qres = Stmt("DropSpace", <<"force">>, TRUE)
    /\ st.i = 3

\* C15: in `drop model <entity> <f>` and `drop space <ident> <f>` the trailing
\* identifier <f> is the force flag whenever it equals `force` without regard to ASCII
\* case, and the statement is produced with force = true.
C15_ForceIgnoresCase ==
    (/\ Compiled /\ Len(tok) = 4
     /\ tok[1] = Kw("drop") /\ tok[2] \in {Kw("model"), Kw("space")}
     /\ is_ident(tok[3]) /\ is_ident(tok[4])
     /\ eq_ignore_ascii_case(tok[4].v, "force")) =>
        qres = Stmt(IF tok[2] = Kw("model") THEN "DropModel" ELSE "DropSpace",
                    <<tok[3].v>>, TRUE)

\* C15 for the identifier force in lower case
C15_LowerCaseForce ==
    (Len(tok) = 4 /\ tok[4] = Id("force")) => C15_ForceIgnoresCase

\* the slice starts with `inspect spaces`, in any ASCII case
InspectSpacesHead ==
    /\ Len(tok) >= 2
    /\ is_ident(tok[1]) /\ eq_ignore_ascii_case(tok[1].v, "inspect")
    /\ is_ident(tok[2]) /\ eq_ignore_ascii_case(tok[2].v, "spaces")

\* C16: compile on `inspect spaces` followed by one or more tokens returns
\* UnexpectedToken, and on `inspect spaces` alone it returns InspectSpaces.
C16_InspectSpacesExtra ==
    (Compiled /\ InspectSpacesHead) =>
        qres = IF Len(tok) = 2 THEN Stmt("InspectSpaces", <<>>, FALSE)
               ELSE Err("UnexpectedToken")

\* C16 for `inspect spaces` with nothing after it
C16_InspectSpacesAlone == Len(tok) = 2 => C16_InspectSpacesExtra

\* the head tokens compile knows
KnownHead(t) ==
    \/ t \in {Kw("use"), Kw("create"), Kw("alter"), Kw("drop")}
    \/ t \in {Kw("insert"), Kw("select"), Kw("update"), Kw("delete")}
    \/ is_ident(t) /\ eq_ignore_ascii_case(t.v, "inspect")

\* C17: compile dispatches on the head token of a slice it takes (2 tokens or more):
\* `create` followed by a token other than model/space returns StmtUnknownCreate,
\* `alter` followed by a token other than model/space returns StmtUnknownAlter, and a
\* head that is none of use, create, alter, drop, inspect (an identifier, in any ASCII
\* case), insert, select, update, delete returns ExpectedStatement.
C17_HeadDispatch ==
    (Compiled /\ Len(tok) >= 2) =>
        /\ (tok[1] = Kw("create") /\ tok[2] \notin {Kw("model"), Kw("space")}) =>
              qres = Err("StmtUnknownCreate")
        /\ (tok[1] = Kw("alter") /\ tok[2] \notin {Kw("model"), Kw("space")}) =>
              qres = Err("StmtUnknownAlter")
        /\ ~KnownHead(tok[1]) => qres = Err("ExpectedStatement")

\* `alter drop` was compiled to StmtUnknownAlter
C17_Witness ==
    /\ Compiled
    /\ tok = <<Kw("alter"), Kw("drop")>>
    /\ qres = Err("StmtUnknownAlter")
    /\ st.i = 2

\* C18: compile on `use` followed by an entity returns Use(entity) with the state okay
\* and the cursor past the head and the entity: 4 tokens consumed for `use a . b`,
\* 2 for `use a`; `use` followed by a non-identifier returns ExpectedEntity.
C18_Use ==
    (Compiled /\ Len(tok) >= 2 /\ tok[1] = Kw("use")) =>
        IF EntityAt(1) # <<>>
        THEN /\ qres = Stmt("Use", EntityAt(1), FALSE)
             /\ okay(st)
             /\ st.i = 1 + EntityLen(1)
        ELSE qres = Err("ExpectedEntity")

\* `use x . force` was compiled to Use(Full(x, force)), 4 tokens consumed
C18_Witness ==
    /\ Compiled
    /\ tok = <<Kw("use"), Id("x"), Sym("."), Id("force")>>
    /\ qres = Stmt("Use", <<"x", "force">>, FALSE)
    /\ okay(st) /\ st.i = 4

C20_FlagMonotonic ==
    /\ okay(State_new)
    /\ [][~okay(st) => ~okay(st')]_vars

\* an entity attempt on a poisoned State found an entity and left the State poisoned
C20_Witness ==
    /\ qpc = "attempt_process_entity"
    /\ ~okay(qpre)
    /\ qres.entity # <<>>
    /\ st.i > qpre.i
    /\ ~okay(st)

(***************************************************************************)
(* Properties of the State's rounded queries.                              *)
(***************************************************************************)
\* C21: cursor_rounded_eq(tok) is total: for every token slice (the empty slice
\* included) and every cursor position it returns true iff the cursor is in range and
\* the token at the cursor equals tok, and returns false without panicking when the
\* cursor is out of range.
C21_CursorRoundedEqTotal ==
    qpc = "cursor_rounded_eq" =>
        /\ ~st.panic
        /\ qres.kind = "bool"
        /\ qres.v = (qpre.i < Len(tok) /\ tok[qpre.i + 1] = qres.arg)

\* C21 on the slices that hold a token
C21_OnNonEmptySlice == Len(tok) >= 1 => C21_CursorRoundedEqTotal

\* the three tokens at offset i are ident '(' ')'
FnArity0At(i) ==
    /\ i + 3 <= Len(tok)
    /\ is_ident(tok[i + 1]) /\ tok[i + 2] = Sym("(") /\ tok[i + 3] = Sym(")")

\* C22: cursor_signature_match_fn_arity0_rounded and
\* cursor_signature_match_entity_full_rounded are total: for every token slice and
\* cursor position they return without panicking; they return false whenever fewer
\* than 3 tokens remain, and with 3 or more remaining they return true iff the three
\* tokens at the cursor are ident '(' ')' (respectively ident '.' ident).
C22_SignatureMatchTotal ==
    /\ (qpc = "cursor_signature_match_fn_arity0_rounded" /\ qpre.i <= Len(tok)) =>
          /\ ~st.panic
          /\ qres.kind = "bool"
          /\ qres.v = FnArity0At(qpre.i)
    /\ (qpc = "cursor_signature_match_entity_full_rounded" /\ qpre.i <= Len(tok)) =>
          /\ ~st.panic
          /\ qres.kind = "bool"
          /\ qres.v = FullAt(qpre.i)

\* C22 on the slices that hold a token
C22_OnNonEmptySlice == Len(tok) >= 1 => C22_SignatureMatchTotal

(***************************************************************************)
(* Properties of the substituted data source.                              *)
(***************************************************************************)
\* C23: the substituted adapter consumes parameters from the front in order: starting
\* from a parameter vector p of length n, the k-th read_lit/read_data_type call
\* (k <= n) returns p[k-1] and leaves n-k parameters; nonzero() is true iff parameters
\* remain; can_read_lit_from(tok) is true iff tok is the `?` placeholder and parameters
\* remain, so reading exactly n placeholders leaves the adapter empty.
C23_SubstitutedInOrder ==
    /\ (qpc \in {"read_lit", "read_data_type"} /\ qres.kind # "panic") =>
          /\ st.d.nread = qpre.d.nread + 1
          /\ st.d.nread <= Len(st.d.src)
          /\ qres.v = IF qpc = "read_lit" THEN st.d.src[st.d.nread]
                      ELSE Datacell_from(st.d.src[st.d.nread])
    /\ (qpc \in {"read_lit", "read_data_type"} /\ qres.arg = Placeholder
        /\ qpre.d.nread < Len(qpre.d.src)) => ~st.panic
    /\ ~st.panic => Len(st.d.data) = Len(st.d.src) - st.d.nread
    /\ qpc = "nonzero" => qres.v = (st.d.nread < Len(st.d.src))
    /\ qpc = "can_read_lit_from" =>
          qres.v = (qres.arg = Placeholder /\ st.d.nread < Len(st.d.src))
    /\ (~st.panic /\ st.d.nread = Len(st.d.src)) => (st.d.data = <<>> /\ ~nonzero(st))

\* the third read of the parameters 1, 2, 1 was a read_data_type that returned the
\* third parameter as a Datacell and left the adapter empty
C23_Witness ==
    /\ qpc = "read_data_type"
    /\ st.d.src = <<1, 2, 1>>
    /\ st.d.nread = 3
    /\ qres.v = Datacell_from(1)
    /\ qres.arg = Placeholder
    /\ st.d.data = <<>>

(***************************************************************************)
(* Properties of parse_inspect and of the drop arm.                        *)
(***************************************************************************)
\* the slice's head is `inspect`, in any ASCII case: compile enters parse_inspect with
\* the cursor at 1
InspectHead ==
    /\ Len(tok) >= 2
    /\ is_ident(tok[1]) /\ eq_ignore_ascii_case(tok[1].v, "inspect")

\* parse_inspect accepts the sub-keyword at offset 1: `model`, `space` followed by an
\* identifier, or `spaces` at end-of-stream
InspectAccepts ==
    \/ tok[2] = Kw("model")
    \/ tok[2] = Kw("space") /\ Len(tok) >= 3 /\ is_ident(tok[3])
    \/ is_ident(tok[2]) /\ eq_ignore_ascii_case(tok[2].v, "spaces") /\ Len(tok) = 2

\* C24: when parse_inspect meets a sub-keyword it cannot accept (any token other than
\* `model`, `space` followed by an identifier, or `spaces` at end-of-stream; `space`
\* followed by nothing or by a non-identifier included), it returns ExpectedStatement
\* and leaves the cursor exactly where it was on entry, at the offending sub-keyword.
C24_InspectUnknown ==
    (Compiled /\ InspectHead /\ ~InspectAccepts) =>
        /\ qres = Err("ExpectedStatement")
        /\ ~st.panic
        /\ st.i = 1
        /\ st.hi = 2

\* `inspect space .` was compiled to ExpectedStatement with the cursor back at `space`
C24_Witness ==
    /\ Compiled
    /\ tok = <<Id("inspect"), Kw("space"), Sym(".")>>
    /\ qres = Err("ExpectedStatement")
    /\ st.i = 1 /\ st.hi = 2
    /\ st.reads = <<0, 1, 2>>

(***************************************************************************)
(* Properties of the CLI's tokenizer.                                      *)
(***************************************************************************)
Tokenized == qpc = "get_query" /\ tok # <<>>

\* the last byte of the run of bytes other than those of stop that starts at byte p
\* (bytes counted from 1)
RECURSIVE RunEnd(_, _)
RunEnd(p, stop) ==
    IF p < Len(tok) /\ tok[p + 1] \notin stop THEN RunEnd(p + 1, stop) ELSE p

\* the tokens of the input from byte p on, after the tokens acc: a quote at a token
\* start opens a run that its next occurrence closes, any other byte than a space
\* starts a token that goes up to the next space; err names the first token that is
\* rejected: one that starts with a digit, or a quote that is never closed
RECURSIVE Scan(_, _)
Scan(p, acc) ==
    IF p > Len(tok) THEN [err |-> "none", toks |-> acc]
    ELSE IF tok[p] = 32 THEN Scan(p + 1, acc)
    ELSE IF is_digit(tok[p]) THEN [err |-> "BadExpression", toks |-> acc]
    ELSE IF tok[p] \in {39, 34}
    THEN IF \E j \in (p + 1)..Len(tok) : tok[j] = tok[p]
         THEN Bind(RunEnd(p, {tok[p]}), LAMBDA e :
                  Scan(e + 2, Append(acc, [quoted |-> TRUE, from |-> p + 1, to |-> e])))
         ELSE [err |-> "QuoteMismatch", toks |-> acc]
    ELSE Bind(RunEnd(p, {32}), LAMBDA e :
             Scan(e + 1, Append(acc, [quoted |-> FALSE, from |-> p, to |-> e])))

\* C25: get_query rejects with BadExpression every input in which a token starts with
\* an ASCII digit (at the start of the input, after a space, or right after a closing
\* quote) and with QuoteMismatch every input with an opening single or double quote at
\* a token start that has no later quote of the same kind; in both cases no query is
\* returned.  Of two such tokens in one input, the first one decides the error.
C25_Rejects ==
    Tokenized =>
        \E sc \in {Scan(1, <<>>)} :
            /\ sc.err # "none" => (qres.kind = sc.err /\ qres.query = <<>>)
            /\ qres.kind \in {"BadExpression", "QuoteMismatch"} => sc.err = qres.kind

\* `'a'1`: the digit right after the closing quote was rejected with BadExpression
C25_Witness ==
    /\ Tokenized
    /\ tok = <<39, 97, 39, 49>>
    /\ qres.kind = "BadExpression"
    /\ qres.query = <<>>

\* space, tab and newline
Whitespace == {32, 9, 10}

\* the maximal runs of non-whitespace bytes from byte p on, in input order
RECURSIVE Runs(_)
Runs(p) ==
    IF p > Len(tok) THEN <<>>
    ELSE IF tok[p] \in Whitespace THEN Runs(p + 1)
    ELSE Bind(RunEnd(p, Whitespace), LAMBDA e : <<SubSeq(tok, p, e)>> \o Runs(e + 1))

\* C26: get_query splits unquoted input on whitespace: for every non-empty input
\* without quotes and without digit-initial tokens, the returned elements are exactly
\* the maximal runs of non-whitespace bytes in input order, so no element contains a
\* whitespace byte (space, tab or newline) and no element is empty.
C26_SplitsOnWhitespace ==
    (/\ Tokenized
     /\ \A p \in 1..Len(tok) : tok[p] \notin {39, 34}
     /\ \A n \in 1..Len(Runs(1)) : ~is_digit(Runs(1)[n][1])) =>
        /\ qres.kind = "Ok"
        /\ qres.query = Runs(1)
        /\ \A n \in 1..Len(qres.query) :
               /\ qres.query[n] # <<>>
               /\ \A h \in 1..Len(qres.query[n]) : qres.query[n][h] \notin Whitespace

\* C26 on the inputs whose only whitespace is the space
C26_OnSpaces ==
    (\A p \in 1..Len(tok) : tok[p] \notin {9, 10}) => C26_SplitsOnWhitespace

RECURSIVE Candidate(_, _)
Candidate(p, added) ==
    IF p > Len(tok) THEN <<>>
    ELSE (IF tok[p] \in FUZZ_TARGETS THEN [j \in 1..added[p] |-> SymComma] ELSE <<tok[p]>>)
             \o Candidate(p + 1, added)

\* C28: the token fuzzer builds each candidate stream by replacing every
\* IgnorableComma and every SymComma of the source stream with a nondeterministically
\* chosen number of real comma tokens and copying all other tokens unchanged in order;
\* it marks the candidate should_pass iff every IgnorableComma position received 0 or 1
\* commas and every SymComma position received exactly 1, and it panics exactly when
\* the verifier accepts a candidate whose should_pass is false.
C28_FuzzTokens ==
    qpc = "fuzz_tokens" =>
        /\ qres.new_src = Candidate(1, qres.added)
        /\ qres.should_pass =
               \A p \in 1..Len(tok) :
                   /\ tok[p] = IgnorableComma => qres.added[p] \in {0, 1}
                   /\ tok[p] = SymComma => qres.added[p] = 1
        /\ qres.panic = (qres.verdict /\ ~qres.should_pass)

\* of `x <ignorable comma> ,` a candidate with one comma for the first target and two
\* for the second was built, marked to fail, accepted by the verifier: the fuzzer
\* panicked
C28_Witness ==
    /\ qpc = "fuzz_tokens"
    /\ tok = <<Id("x"), IgnorableComma, SymComma>>
    /\ qres.added = <<0, 1, 2>>
    /\ qres.new_src = <<Id("x"), SymComma, SymComma, SymComma>>
    /\ ~qres.should_pass
    /\ qres.panic

(***************************************************************************)
(* Properties of the file driver's failures.                               *)
(***************************************************************************)
\* the last call was an open_or_create_perm_rw that took the file for an existing one
OpenOnExisting == last.op = "open" /\ last.raw = "Existing"

\* the error the header of the file before the last open calls for: a short read when
\* the file is shorter than a header, CorruptedHeader when the header does not decode,
\* HeaderMismatch when its tuple is not the caller's, "none" otherwise
HeaderError ==
    IF Len(last.pre.bytes) < HeaderSize THEN "IoError"
    ELSE IF ~PreHeader.some THEN "CorruptedHeader"
    ELSE IF TupleOf(last.args)
              # <<PreHeader.h.scope, PreHeader.h.specifier, PreHeader.h.specifier_version>>
    THEN "HeaderMismatch"
    ELSE "none"

\* C29: when open_or_create_perm_rw fails on an existing file (the header read comes
\* up short, the header does not decode, or the tuple does not match), no byte has been
\* written to the file: its contents and length are exactly as before the call, and
\* the error is returned after a single attempt with no retry.
C29_FailedOpenWritesNothing ==
    (OpenOnExisting /\ HeaderError # "none") =>
        /\ last.res = HeaderError
        /\ fs = last.pre
        /\ Len(fs.bytes) = Len(last.pre.bytes)
        /\ ~fh.open

\* an open found the magic of an existing file overwritten, returned CorruptedHeader
\* and left the file as it was
C29_Witness ==
    /\ OpenOnExisting
    /\ last.res = "CorruptedHeader"
    /\ Len(last.pre.bytes) >= HeaderSize
    /\ last.pre.bytes[1] # SDSS_MAGIC
    /\ fs = last.pre

(***************************************************************************)
(* Properties of compile's drop arm.                                       *)
(***************************************************************************)
\* C30: compile enters parse_drop only when at least 2 tokens follow the `drop` head:
\* a stream of `drop` plus exactly one more token (`drop model`, `drop space`) returns
\* ExpectedStatement, not UnexpectedEOS or UnexpectedToken, and never reads past the
\* end of the stream.
C30_DropNeedsTwoTokens ==
    (Compiled /\ Len(tok) >= 2 /\ tok[1] = Kw("drop")) =>
        /\ (\E k \in 1..Len(st.rd) : st.rd[k] = 1) <=> Len(tok) >= 3
        /\ Len(tok) = 2 =>
              /\ qres = Err("ExpectedStatement")
              /\ ~st.panic
              /\ st.reads = <<0>>
              /\ st.hi = 1

\* `drop model` was compiled to ExpectedStatement, only the head being read
C30_Witness ==
    /\ Compiled
    /\ tok = <<Kw("drop"), Kw("model")>>
    /\ qres = Err("ExpectedStatement")
    /\ st.reads = <<0>>
    /\ st.i = 1

(***************************************************************************)
(* Properties of the end of the stream.                                    *)
(***************************************************************************)
\* C31: end-of-stream is enforced only for drop and `inspect spaces`: whenever compile
\* returns DropModel, DropSpace or InspectSpaces every token has been consumed, whereas
\* for `use <entity>`, `inspect model <entity>` and `inspect space <ident>` compile
\* returns Ok with the statement even when further tokens follow, leaving them
\* unconsumed.
C31_EndOfStream ==
    (Compiled /\ Len(tok) >= 2) =>
        /\ qres.kind \in {"DropModel", "DropSpace", "InspectSpaces"} => st.i = Len(tok)
        /\ (tok[1] = Kw("use") /\ EntityAt(1) # <<>>) =>
              /\ qres = Stmt("Use", EntityAt(1), FALSE)
              /\ st.i = 1 + EntityLen(1)
        /\ (InspectHead /\ tok[2] = Kw("model") /\ EntityAt(2) # <<>>) =>
              /\ qres = Stmt("InspectModel", EntityAt(2), FALSE)
              /\ st.i = 2 + EntityLen(2)
        /\ (InspectHead /\ tok[2] = Kw("space") /\ SingleAt(2)) =>
              /\ qres = Stmt("InspectSpace", <<tok[3].v>>, FALSE)
              /\ st.i = 3

\* `inspect space x drop` was compiled to InspectSpace(x), the last token left
\* unconsumed
C31_Witness ==
    /\ Compiled
    /\ tok = <<Id("inspect"), Kw("space"), Id("x"), Kw("drop")>>
    /\ qres = Stmt("InspectSpace", <<"x">>, FALSE)
    /\ st.i = 3
    /\ st.i < Len(tok)

(***************************************************************************)
(* Properties of the parser's twin implementations.                        *)
(***************************************************************************)
\* C32: the two parse_drop implementations (ql/ddl.rs and ql/ddl/drop.rs) are
\* equivalent: for every token slice and every starting cursor with at least 2 tokens
\* remaining, both return the same result (the same DropModel/DropSpace payload or the
\* same error kind) and leave the cursor at the same position and the poison flag in
\* the same state.
C32_ParseDropTwins ==
    (qpc = "parse_drop" /\ qpre.i + 2 <= Len(tok)) =>
        /\ qres.drop = qres.ddl
        /\ qres.drop.kind # "panic"
        /\ st.i = qres.ddl_state.i
        /\ st.f = qres.ddl_state.f

\* on `model .` both returned ExpectedEntity and left the State poisoned at cursor 1
C32_Witness ==
    /\ qpc = "parse_drop"
    /\ tok = <<Kw("model"), Sym(".")>>
    /\ qpre.i = 0 /\ qpre.f
    /\ qres.drop = Err("ExpectedEntity")
    /\ qres.ddl = Err("ExpectedEntity")
    /\ st.i = 1 /\ ~st.f
    /\ qres.ddl_state.i = 1 /\ ~qres.ddl_state.f

\* C33: Entity::parse_from_tokens and Entity::attempt_process_entity agree on every
\* input: for any token slice and in-range cursor, parse_from_tokens on the remaining
\* tokens returns Ok(e) and adds c to its counter iff attempt_process_entity on a fresh
\* state at that cursor produces the same entity e, advances the cursor by the same c
\* (3 for Full, 1 for Single) and stays okay; parse_from_tokens returns ExpectedEntity
\* and leaves the counter unchanged iff attempt_process_entity poisons the state and
\* leaves the cursor unchanged.
C33_EntityTwins ==
    (qpc = "entity" /\ qpre.f /\ qpre.i <= Len(tok)) =>
        /\ ~st.panic
        /\ qres.from_tokens.ok <=> okay(st)
        /\ qres.from_tokens.ok =>
              /\ qres.entity = qres.from_tokens.v
              /\ st.i = qres.from_tokens.c
              /\ st.i - qpre.i = (IF Len(qres.entity) = 2 THEN 3 ELSE 1)
        /\ ~qres.from_tokens.ok =>
              /\ qres.from_tokens.c = qpre.i
              /\ st.i = qpre.i

\* C33 on the slices that hold a token
C33_OnNonEmptySlice == Len(tok) >= 1 => C33_EntityTwins

(***************************************************************************)
(* Properties of seek_ahead.                                               *)
(***************************************************************************)
\* the last call was a seek_ahead, and its handle is still there
Sought == last.op = "seek_ahead" /\ fh.open

\* C34: seek_ahead(n) on the local-disk implementation positions the file at absolute
\* offset n from the start of the file, independent of the current position: calling
\* seek_ahead(n) twice leaves the same position as calling it once, and seek_ahead(0)
\* rewinds to the header; it never changes file contents or length.
C34_SeekAheadIsAbsolute ==
    /\ [](Sought => (fh.pos = last.by /\ fs = last.pre /\ hist[Len(hist)] = fs))
    /\ [][(Sought /\ Sought' /\ last'.by = last.by) => fh'.pos = fh.pos]_vars

\* seek_ahead(0) on a handle that stood past the header of its file rewound it to
\* the header
C34_Witness ==
    /\ Sought
    /\ last.by = 0
    /\ last.from >= HeaderSize
    /\ fh.pos = 0
    /\ Len(fs.bytes) >= HeaderSize
    /\ Hdr(fs)[1] = SDSS_MAGIC

(***************************************************************************)
(* Properties of the LSET action.                                          *)
(***************************************************************************)
\* the calls that name the list
Named == { c \in DOMAIN calls : Len(calls[c].act) >= 1 }

\* the calls that obtained the fresh entry and inserted through it
Inserted == { c \in Named : calls[c].did }

\* what the calls that have returned were told, and what the list holds
C35_Replies ==
    /\ Cardinality(Inserted) <= 1
    /\ \A c \in Inserted : listmap = [some |-> TRUE, v |-> Tail(calls[c].act)]
    /\ \A c \in Named : calls[c].pc = "done" =>
          /\ calls[c].did => calls[c].reply = "OKAY"
          /\ (calls[c].saw /\ ~calls[c].did) =>
                (calls[c].reply = "OVERWRITE_ERR" /\ listmap.some)
          /\ ~calls[c].saw => (calls[c].reply = "SERVER_ERR" /\ ~calls[c].did)

\* a step of the calls: a stored list is never replaced, and the call that finds
\* the registry's state not okay returns the server error without touching the map
C35_Step ==
    /\ listmap.some => listmap' = listmap
    /\ \A c \in Named :
          (calls[c].pc = "state_okay" /\ calls'[c].pc # "state_okay" /\ ~registry) =>
              (calls'[c].pc = "done" /\ calls'[c].reply = "SERVER_ERR"
                  /\ listmap' = listmap)

\* every call that names the list has returned, and one of them found the state okay
C35_AllReturned ==
    /\ \A c \in Named : calls[c].pc = "done"
    /\ \E c \in Named : calls[c].saw

=============================================================================
